---- MODULE Spec2Model ----
(***************************************************************************)
(* Chord distributed hash table (src/src/node.py, finger_table.py,         *)
(* utils.py) with the hosts' call order (src/run.py, src/server.py).       *)
(*                                                                         *)
(* One step of the model is one piece of straight-line code of one thread  *)
(* that ends at (or contains) one outbound RPC: the callee's handler runs  *)
(* inside the step.  A forwarded FindSuccessor chain is evaluated in one   *)
(* step.  fix_fingers is two steps, its lookup and its write: the host's   *)
(* thread (join) may run between them.                                     *)
(***************************************************************************)
EXTENDS Integers, Sequences, FiniteSets, TLC

\* ------------------------------------------------------------------ bounds
\* Ticks a node's stabilization loop begins after its start in the general
\* behaviours; the ghost counter stops there.
MaxTicks == 2
\* Ticks a node begins after the latest join in the two-node scenario.
ScenarioTicks == 5
\* How many nodes the environment may crash.
MaxCrashes == 1
\* Ticks a node begins in the three-node scenario.
MaxTicks3 == 1
\* Ticks a stabilization loop begins in the behaviours with stop_server.
StopTicks == 2

\* ------------------------------------------------------------- utils.py
RING_BITS == 8
RING_SIZE == 2 ^ RING_BITS

\* Addresses of the nodes: the nodes of the join scenarios, and four nodes
\* whose ids are 10, 80, 150 and 220.  ForeignAddr is an endpoint
\* that is not a node of this program: it answers FindSuccessor with the
\* absent NodeInfo.
NodeA == "a:1"
NodeB == "b:2"
NodeC == "c:3"
JoinNodes == {NodeA, NodeB}
ThreeNodes == {NodeA, NodeB, NodeC}
RingNodes == {"localhost:50477", "localhost:50262", "localhost:50139", "localhost:50063"}
ForeignAddr == "x:9"

\* hash_key: SHA-1 of the UTF-8 string, as an integer, modulo RING_SIZE.
\* The digests are tabulated for the address pool (int(sha1(a).hexdigest(),16)
\* reduced mod 2^8).
hash_key(key) ==
    CASE key = "a:1" -> 71
      [] key = "b:2" -> 65
      [] key = "c:3" -> 192
      [] key = "localhost:50477" -> 10
      [] key = "localhost:50262" -> 80
      [] key = "localhost:50139" -> 150
      [] key = "localhost:50063" -> 220
      [] key = "x:9" -> 184

\* NodeInfo dataclass; Python's None is the record below (no node has id -1).
NodeInfo(id, address) == [id |-> id, address |-> address]
None == [id |-> -1, address |-> ""]

\* NodeInfo.__eq__: equality by id alone.
NodeInfoEq(a, b) == a.id = b.id

\* ------------------------------------------------------- finger_table.py
\* FingerEntry; an unset slot of FingerTable.fingers ([None] * m) is NoEntry.
FingerEntry(start, successor) == [start |-> start, successor |-> successor]
NoEntry == [start |-> -1, successor |-> None]

FingerIdx == 0 .. (RING_BITS - 1)

\* FingerTable.__init__: m unset slots.
FingerTableInit == [i \in FingerIdx |-> NoEntry]

\* FingerTable.start(i) for the table of node_id.
FingerStart(node_id, i) == (node_id + 2 ^ i) % RING_SIZE

\* ------------------------------------------------- wire encoding (node.py)
\* str(int) and int(str) on decimal digit strings, as sequences of digits.
RECURSIVE IntToStr(_)
IntToStr(n) == IF n < 10 THEN <<n>> ELSE IntToStr(n \div 10) \o <<n % 10>>

RECURSIVE StrToInt(_)
StrToInt(s) ==
    IF Len(s) = 1 THEN s[1]
    ELSE 10 * StrToInt(SubSeq(s, 1, Len(s) - 1)) + s[Len(s)]

\* chord_pb2.NodeInfo(): both fields at their proto3 default (empty string).
EmptyProto == [id |-> <<>>, address |-> ""]

\* Node._node_info_to_proto (raises on None: callers guard, see FindSuccessor).
node_info_to_proto(node_info) ==
    [id |-> IntToStr(node_info.id), address |-> node_info.address]

\* Node._proto_to_node_info
proto_to_node_info(proto_node) ==
    IF proto_node.id = <<>> \/ proto_node.address = ""
    THEN None
    ELSE NodeInfo(StrToInt(proto_node.id), proto_node.address)

\* ------------------------------------------------------- Node._in_range
\* _in_range whose wraparound case joins its two comparisons with "and".
in_range_and(key, start, end, inclusive_start, inclusive_end) ==
    IF start = end THEN inclusive_start \/ inclusive_end
    ELSE IF start < end THEN
        IF inclusive_start /\ inclusive_end THEN start <= key /\ key <= end
        ELSE IF inclusive_start THEN start <= key /\ key < end
        ELSE IF inclusive_end THEN start < key /\ key <= end
        ELSE start < key /\ key < end
    ELSE
        IF inclusive_start /\ inclusive_end THEN key >= start /\ key <= end
        ELSE IF inclusive_start THEN key >= start /\ key < end
        ELSE IF inclusive_end THEN key > start /\ key <= end
        ELSE key > start /\ key < end

\* _in_range without the start == end test: the wraparound case answers.
in_range_no_tie(key, start, end, inclusive_start, inclusive_end) ==
    IF start < end THEN
        IF inclusive_start /\ inclusive_end THEN start <= key /\ key <= end
        ELSE IF inclusive_start THEN start <= key /\ key < end
        ELSE IF inclusive_end THEN start < key /\ key <= end
        ELSE start < key /\ key < end
    ELSE
        IF inclusive_start /\ inclusive_end THEN key >= start \/ key <= end
        ELSE IF inclusive_start THEN key >= start \/ key < end
        ELSE IF inclusive_end THEN key > start \/ key <= end
        ELSE key > start \/ key < end

in_range(key, start, end, inclusive_start, inclusive_end) ==
    IF start = end THEN inclusive_start \/ inclusive_end
    ELSE IF start < end THEN
        IF inclusive_start /\ inclusive_end THEN start <= key /\ key <= end
        ELSE IF inclusive_start THEN start <= key /\ key < end
        ELSE IF inclusive_end THEN start < key /\ key <= end
        ELSE start < key /\ key < end
    ELSE
        IF inclusive_start /\ inclusive_end THEN key >= start \/ key <= end
        ELSE IF inclusive_start THEN key >= start \/ key < end
        ELSE IF inclusive_end THEN key > start \/ key <= end
        ELSE key > start \/ key < end

\* --------------------------------------------------------------- state
VARIABLES
    serving,        \* the node's gRPC server accepts calls (start_server)
    stab_running,   \* Node._stabilization_running
    pc,             \* position of the node's stabilization thread
    successor,      \* Node.successor
    predecessor,    \* Node.predecessor
    finger_table,   \* Node.finger_table.fingers
    next_finger,    \* Node.next_finger
    join_resp,      \* response of the bootstrap FindSuccessor RPC, in flight
    stab_call,      \* outbound RPC of the stabilization thread (GetPredecessor, Notify, Ping), in flight
    fix_lookup,     \* fix_fingers' locals start and successor, before its write
    phase,          \* ghost: lifecycle of the node as seen by its host
    bootstrap,      \* ghost: argument of the node's completed join
    ticks,          \* ghost: ticks begun since the last completed join
    crashes,        \* ghost: number of crashes so far
    last            \* ghost: the operation completed by the last step

vars == <<serving, stab_running, pc, successor, predecessor, finger_table,
          next_finger, join_resp, stab_call, fix_lookup, phase, bootstrap, ticks, crashes, last>>

\* The nodes of the behaviour at hand (the domain Init gives the state).
Addresses == DOMAIN serving

\* Node.id = hash_key(address); a node is named by its address.
NodeId(n) == hash_key(n)
Self(n) == NodeInfo(NodeId(n), n)

\* No bootstrap call in flight.
NoCall == [pending |-> FALSE, peer |-> "", proto |-> EmptyProto]

\* The stabilization thread has no RPC in flight.  `checked` and `adopt`
\* belong to the handler that serves the call: its test has been evaluated,
\* and with what outcome.  The field `stood` is ghost: the successor as it
\* stood when the adoption step of the stabilize call in progress ended.
NoRpc == [pending |-> FALSE, method |-> "", to |-> "", served |-> FALSE,
          resp |-> EmptyProto, checked |-> FALSE, adopt |-> FALSE, stood |-> None]

\* fix_fingers holds no lookup result.
NoLookup == [pending |-> FALSE, start |-> -1, successor |-> None]

\* Ghost record of the last completed operation.
NoOp ==
    [op |-> "none", node |-> "", peer |-> "", ok |-> TRUE, arg |-> -1, ret |-> None,
     resp |-> EmptyProto, rpcs |-> 0, old_successor |-> None, old_predecessor |-> None,
     old_fingers |-> FingerTableInit, old_next_finger |-> 0,
     args |-> <<>>, value |-> FALSE]

Op(name, n) ==
    [NoOp EXCEPT !.op = name, !.node = n,
                 !.old_successor = successor[n],
                 !.old_predecessor = predecessor[n],
                 !.old_fingers = finger_table[n],
                 !.old_next_finger = next_finger[n]]

\* The scan with the end of the arc included: a finger whose owner's id is id
\* itself counts as preceding id.
RECURSIVE cpf_scan_inclusive(_, _, _, _)
cpf_scan_inclusive(F, n, id, i) ==
    IF i < 0 THEN Self(n)
    ELSE IF /\ F[n][i] # NoEntry
            /\ F[n][i].successor # None
            /\ in_range(F[n][i].successor.id, NodeId(n), id, FALSE, TRUE)
         THEN F[n][i].successor
         ELSE cpf_scan_inclusive(F, n, id, i - 1)

\* ------------------------------------------------------------- lookup
\* Node.closest_preceding_finger over the finger table F of node n: the scan
\* runs from index m-1 down to 0 and returns at the first hit.
RECURSIVE cpf_scan(_, _, _, _)
cpf_scan(F, n, id, i) ==
    IF i < 0 THEN Self(n)
    ELSE IF /\ F[n][i] # NoEntry
            /\ F[n][i].successor # None
            /\ in_range(F[n][i].successor.id, NodeId(n), id, FALSE, FALSE)
         THEN F[n][i].successor
         ELSE cpf_scan(F, n, id, i - 1)

\* closest_preceding_finger that scans from index 0 upwards and so returns the
\* nearest finger in range, not the farthest.
RECURSIVE cpf_scan_up(_, _, _, _)
cpf_scan_up(F, n, id, i) ==
    IF i >= RING_BITS THEN Self(n)
    ELSE IF /\ F[n][i] # NoEntry
            /\ F[n][i].successor # None
            /\ in_range(F[n][i].successor.id, NodeId(n), id, FALSE, FALSE)
         THEN F[n][i].successor
         ELSE cpf_scan_up(F, n, id, i + 1)

closest_preceding_finger_nearest(F, n, id) == cpf_scan_up(F, n, id, 0)

closest_preceding_finger(F, n, id) == cpf_scan(F, n, id, RING_BITS - 1)

\* Result of a call: it raised, or returned `node` after `rpcs` outbound
\* FindSuccessor calls (to the addresses in `path`, in order).
Raised(rpcs, path) == [raised |-> TRUE, node |-> None, rpcs |-> rpcs, path |-> path]
Returned(node, rpcs, path) ==
    [raised |-> FALSE, node |-> node, rpcs |-> rpcs, path |-> path]

\* find_successor that forwards to its successor, not to the closest
\* preceding finger.
RECURSIVE find_successor_in_via_successor(_, _, _, _)
find_successor_in_via_successor(S, F, n, id) ==
    IF S[n] = None
    THEN Raised(0, <<>>)
    ELSE IF in_range(id, NodeId(n), S[n].id, TRUE, TRUE)
    THEN Returned(S[n], 0, <<>>)
    ELSE LET closest_node == S[n] IN
         IF closest_node.id = NodeId(n)
         THEN Returned(S[n], 0, <<>>)
         ELSE LET c == closest_node.address IN
              IF c \notin Addresses \/ ~serving[c]
              THEN Returned(S[n], 1, <<c>>)
              ELSE LET r == find_successor_in_via_successor(S, F, c, StrToInt(IntToStr(id))) IN
                   IF r.raised \/ r.node = None
                   THEN Returned(S[n], r.rpcs + 1, <<c>> \o r.path)
                   ELSE Returned(proto_to_node_info(node_info_to_proto(r.node)),
                                 r.rpcs + 1, <<c>> \o r.path)

\* Node.find_successor at node n, in the routing state (S, F): S the successor
\* of every node, F the finger table of every node.  The outbound RPC runs
\* the callee's FindSuccessor handler (int(request.id), find_successor,
\* _node_info_to_proto); it raises at the caller when the callee does not
\* serve or when its handler raises.
RECURSIVE find_successor_in(_, _, _, _)
find_successor_in(S, F, n, id) ==
    IF S[n] = None
    THEN Raised(0, <<>>)                \* self.successor.id on None
    ELSE IF in_range(id, NodeId(n), S[n].id, TRUE, TRUE)
    THEN Returned(S[n], 0, <<>>)
    ELSE LET closest_node == closest_preceding_finger(F, n, id) IN
         IF closest_node.id = NodeId(n)
         THEN Returned(S[n], 0, <<>>)
         ELSE LET c == closest_node.address IN
              IF c \notin Addresses \/ ~serving[c]
              THEN Returned(S[n], 1, <<c>>)          \* except: fall back
              ELSE LET r == find_successor_in(S, F, c, StrToInt(IntToStr(id))) IN
                   IF r.raised \/ r.node = None
                   THEN Returned(S[n], r.rpcs + 1, <<c>> \o r.path)
                   ELSE Returned(proto_to_node_info(node_info_to_proto(r.node)),
                                 r.rpcs + 1, <<c>> \o r.path)

find_successor(n, id) == find_successor_in(successor, finger_table, n, id)

\* Node.FindSuccessor, the RPC handler, as seen by a caller at address b:
\* the response message, or a raised RPC error.
FindSuccessorRpc(b, id) ==
    IF b = ForeignAddr THEN [raised |-> FALSE, proto |-> EmptyProto]
    ELSE IF b \notin Addresses \/ ~serving[b] THEN [raised |-> TRUE, proto |-> EmptyProto]
    ELSE LET r == find_successor(b, StrToInt(IntToStr(id))) IN
         IF r.raised \/ r.node = None
         THEN [raised |-> TRUE, proto |-> EmptyProto]
         ELSE [raised |-> FALSE, proto |-> node_info_to_proto(r.node)]

\* ---------------------------------------------------------------- Init
\* Node.__init__ for every address of N: constructed, not started.
Created(N) ==
    /\ serving = [n \in N |-> FALSE]
    /\ stab_running = [n \in N |-> FALSE]
    /\ pc = [n \in N |-> "idle"]
    /\ successor = [n \in N |-> NodeInfo(hash_key(n), n)]
    /\ predecessor = [n \in N |-> None]
    /\ finger_table = [n \in N |-> FingerTableInit]
    /\ next_finger = [n \in N |-> 0]
    /\ join_resp = [n \in N |-> NoCall]
    /\ stab_call = [n \in N |-> NoRpc]
    /\ fix_lookup = [n \in N |-> NoLookup]
    /\ phase = [n \in N |-> "CREATED"]
    /\ bootstrap = [n \in N |-> ""]
    /\ ticks = [n \in N |-> 0]
    /\ crashes = 0
    /\ last = NoOp

Init == Created(JoinNodes)

routing == <<successor, predecessor, finger_table, next_finger>>

\* ------------------------------------------------------- start_server
\* Node.start_server: the server listens and the stabilization thread starts
\* (start_stabilization sets the flag and starts the loop).
StartServer(n) ==
    /\ phase[n] = "CREATED"
    /\ serving' = [serving EXCEPT ![n] = TRUE]
    /\ stab_running' = [stab_running EXCEPT ![n] = TRUE]
    /\ pc' = [pc EXCEPT ![n] = "stabilize"]
    /\ phase' = [phase EXCEPT ![n] = "STARTED"]
    /\ last' = NoOp
    /\ UNCHANGED <<routing, join_resp, stab_call, bootstrap, crashes, fix_lookup>>

\* ---------------------------------------------------------------- join
\* join(None) that does not assign self.successor.
JoinNil_KeepSuccessor(n) ==
    /\ phase[n] = "STARTED"
    /\ UNCHANGED successor
    /\ predecessor' = [predecessor EXCEPT ![n] = None]
    /\ finger_table' = [finger_table EXCEPT ![n] =
            [i \in FingerIdx |-> FingerEntry(FingerStart(NodeId(n), i), Self(n))]]
    /\ phase' = [phase EXCEPT ![n] = "LIVE"]
    /\ bootstrap' = [bootstrap EXCEPT ![n] = "nil"]
    /\ last' = [Op("join_nil", n) EXCEPT !.ok = TRUE, !.ret = Self(n)]
    /\ UNCHANGED <<serving, stab_running, pc, next_finger, join_resp, stab_call, crashes, fix_lookup>>

\* join(None) that does not clear self.predecessor.
JoinNil_KeepPredecessor(n) ==
    /\ phase[n] = "STARTED"
    /\ successor' = [successor EXCEPT ![n] = Self(n)]
    /\ UNCHANGED predecessor
    /\ finger_table' = [finger_table EXCEPT ![n] =
            [i \in FingerIdx |-> FingerEntry(FingerStart(NodeId(n), i), Self(n))]]
    /\ phase' = [phase EXCEPT ![n] = "LIVE"]
    /\ bootstrap' = [bootstrap EXCEPT ![n] = "nil"]
    /\ last' = [Op("join_nil", n) EXCEPT !.ok = TRUE, !.ret = Self(n)]
    /\ UNCHANGED <<serving, stab_running, pc, next_finger, join_resp, stab_call, crashes, fix_lookup>>

\* Node.join(None): create a new ring.
JoinNil(n) ==
    /\ phase[n] = "STARTED"
    /\ successor' = [successor EXCEPT ![n] = Self(n)]
    /\ predecessor' = [predecessor EXCEPT ![n] = None]
    /\ finger_table' = [finger_table EXCEPT ![n] =
            [i \in FingerIdx |-> FingerEntry(FingerStart(NodeId(n), i), Self(n))]]
    /\ phase' = [phase EXCEPT ![n] = "LIVE"]
    /\ bootstrap' = [bootstrap EXCEPT ![n] = "nil"]
    /\ last' = [Op("join_nil", n) EXCEPT !.ok = TRUE, !.ret = Self(n)]
    /\ UNCHANGED <<serving, stab_running, pc, next_finger, join_resp, stab_call, crashes, fix_lookup>>

\* Node.join(existing_node_address), first half: the bootstrap FindSuccessor
\* RPC.  An RPC error is caught by join's except and join returns False.
JoinCall(n, b) ==
    /\ phase[n] = "STARTED"
    /\ b # n
    /\ LET r == FindSuccessorRpc(b, NodeId(n)) IN
       IF r.raised
       THEN /\ last' = [Op("join", n) EXCEPT !.ok = FALSE, !.peer = b]
            /\ UNCHANGED <<join_resp, phase>>
       ELSE /\ phase' = [phase EXCEPT ![n] = "JOINING"]
            /\ join_resp' = [join_resp EXCEPT ![n] =
                                [pending |-> TRUE, peer |-> b, proto |-> r.proto]]
            /\ last' = [Op("join_call", n) EXCEPT !.peer = b]
    /\ UNCHANGED <<serving, stab_running, pc, routing, bootstrap, crashes, fix_lookup,
                   stab_call>>

\* _init_finger_table whose lookups all read the finger table as it was
\* before the loop (F0), not the entries the loop has written.
RECURSIVE init_finger_table_from(_, _, _, _, _)
init_finger_table_from(S, F0, F, n, i) ==
    IF i >= RING_BITS THEN F
    ELSE LET start == FingerStart(NodeId(n), i)
             finger_succ == find_successor_in(S, F0, n, start).node
         IN init_finger_table_from(S, F0,
                [F EXCEPT ![n][i] = FingerEntry(start, finger_succ)], n, i + 1)

init_finger_table_stale(S, F, n, i) == init_finger_table_from(S, F, F, n, i)

\* Node._init_finger_table: for i = 0 .. m-1 in order, finger i is set to
\* find_successor(start_i); each lookup reads the entries written before it.
RECURSIVE init_finger_table(_, _, _, _)
init_finger_table(S, F, n, i) ==
    IF i >= RING_BITS THEN F
    ELSE LET start == FingerStart(NodeId(n), i)
             finger_succ == find_successor_in(S, F, n, start).node
         IN init_finger_table(S, [F EXCEPT ![n][i] = FingerEntry(start, finger_succ)],
                              n, i + 1)

\* Node.join(existing_node_address), second half: the response is stored in
\* self.successor, then checked; on an absent NodeInfo join raises and
\* returns False.
JoinFinish(n) ==
    /\ phase[n] = "JOINING"
    /\ join_resp[n].pending
    /\ LET s == proto_to_node_info(join_resp[n].proto)
           S == [successor EXCEPT ![n] = s]
       IN /\ successor' = S
          /\ IF s = None
             THEN /\ phase' = [phase EXCEPT ![n] = "STARTED"]
                  /\ last' = [Op("join", n) EXCEPT !.ok = FALSE,
                                                    !.peer = join_resp[n].peer,
                                                    !.resp = join_resp[n].proto]
                  /\ UNCHANGED <<predecessor, finger_table, bootstrap>>
             ELSE /\ predecessor' = [predecessor EXCEPT ![n] = None]
                  /\ finger_table' = init_finger_table(S, finger_table, n, 0)
                  /\ phase' = [phase EXCEPT ![n] = "LIVE"]
                  /\ bootstrap' = [bootstrap EXCEPT ![n] = join_resp[n].peer]
                  /\ last' = [Op("join", n) EXCEPT !.ok = TRUE, !.ret = s,
                                                    !.peer = join_resp[n].peer,
                                                    !.resp = join_resp[n].proto]
    /\ join_resp' = [join_resp EXCEPT ![n] = NoCall]
    /\ UNCHANGED <<serving, stab_running, pc, next_finger, crashes, fix_lookup, stab_call>>

\* ------------------------------------------------- peer RPC handlers
\* An outbound RPC to NodeInfo `peer` raises when the peer does not serve.
Reachable(peer) == peer.address \in Addresses /\ serving[peer.address]

\* Node.GetPredecessor at node b: the response message.
GetPredecessor(b) ==
    IF predecessor[b] # None THEN node_info_to_proto(predecessor[b]) ELSE EmptyProto

\* notify that drops the predecessor it has when the candidate is not between
\* it and the node.
notify_reset(b, node) ==
    IF predecessor[b] = None
       \/ in_range(node.id, predecessor[b].id, NodeId(b), FALSE, FALSE)
    THEN node
    ELSE None

\* notify that turns away the node's own Notify: a node is never made its own
\* predecessor.
notify_not_self(b, node) ==
    IF node.id = NodeId(b)
    THEN predecessor[b]
    ELSE IF predecessor[b] = None
            \/ in_range(node.id, predecessor[b].id, NodeId(b), FALSE, FALSE)
    THEN node
    ELSE predecessor[b]

\* Node.notify at node b: the value of b.predecessor after notify(node).
notify(b, node) ==
    IF predecessor[b] = None
       \/ in_range(node.id, predecessor[b].id, NodeId(b), FALSE, FALSE)
    THEN node
    ELSE predecessor[b]

\* Notify whose decoding tests only the id of the request: a request with an
\* id and an empty address is taken for a node.
NotifyHandler_IdOnly(b, request) ==
    LET node == IF request.id = <<>>
                THEN None
                ELSE NodeInfo(StrToInt(request.id), request.address)
    IN IF node # None THEN notify(b, node) ELSE predecessor[b]

\* Node.Notify at node b: the value of b.predecessor after the handler ran on
\* `request`.
NotifyHandler(b, request) ==
    LET node == proto_to_node_info(request) IN
    IF node # None THEN notify(b, node) ELSE predecessor[b]

\* ------------------------------------------------ stabilization thread
Bump(t, cap) == IF t < cap THEN t + 1 ELSE t

\* stabilize that computes the start of finger 0 from the adopted node's id.
Stabilize_StartOfSuccessor(n) ==
    /\ pc[n] = "stabilize"
    /\ IF ~stab_running[n]
       THEN /\ pc' = [pc EXCEPT ![n] = "stopped"]
            /\ last' = Op("loop_exit", n)
            /\ UNCHANGED <<routing, stab_call>>
       ELSE IF successor[n] = None \/ ~Reachable(successor[n])
       THEN /\ pc' = [pc EXCEPT ![n] = "fix_fingers"]
            /\ last' = [Op("stabilize", n) EXCEPT !.ok = FALSE]
            /\ UNCHANGED <<routing, stab_call>>
       ELSE LET x == proto_to_node_info(GetPredecessor(successor[n].address)) IN
            /\ IF /\ x # None
                  /\ x.id # NodeId(n)
                  /\ in_range(x.id, NodeId(n), successor[n].id, FALSE, FALSE)
               THEN /\ successor' = [successor EXCEPT ![n] = x]
                    /\ finger_table' = [finger_table EXCEPT ![n][0] =
                           FingerEntry(FingerStart(x.id, 0), x)]
               ELSE UNCHANGED <<successor, finger_table>>
            /\ pc' = [pc EXCEPT ![n] = "notify"]
            /\ stab_call' = [stab_call EXCEPT ![n] =
                   [NoRpc EXCEPT !.stood = successor'[n]]]
            /\ last' = NoOp
            /\ UNCHANGED <<predecessor, next_finger>>
    /\ UNCHANGED <<serving, stab_running, join_resp, phase, bootstrap, crashes, fix_lookup>>

\* A stabilization loop that does not test _stabilization_running (while
\* True): it begins its next tick whatever the flag says.
Stabilize_IgnoreStop(n) ==
    /\ pc[n] = "stabilize"
    /\ IF successor[n] = None \/ ~Reachable(successor[n])
       THEN /\ pc' = [pc EXCEPT ![n] = "fix_fingers"]
            /\ last' = [Op("stabilize", n) EXCEPT !.ok = FALSE]
            /\ UNCHANGED <<routing, stab_call>>
       ELSE LET x == proto_to_node_info(GetPredecessor(successor[n].address)) IN
            /\ IF /\ x # None
                  /\ x.id # NodeId(n)
                  /\ in_range(x.id, NodeId(n), successor[n].id, FALSE, FALSE)
               THEN /\ successor' = [successor EXCEPT ![n] = x]
                    /\ finger_table' = [finger_table EXCEPT ![n][0] =
                           FingerEntry(FingerStart(NodeId(n), 0), x)]
               ELSE UNCHANGED <<successor, finger_table>>
            /\ pc' = [pc EXCEPT ![n] = "notify"]
            /\ stab_call' = [stab_call EXCEPT ![n] =
                   [NoRpc EXCEPT !.stood = successor'[n]]]
            /\ last' = NoOp
            /\ UNCHANGED <<predecessor, next_finger>>
    /\ UNCHANGED <<serving, stab_running, join_resp, phase, bootstrap, crashes, fix_lookup>>

\* stabilize that adopts every x that is present and is not the node itself,
\* without the range test.
Stabilize_AdoptAny(n) ==
    /\ pc[n] = "stabilize"
    /\ IF ~stab_running[n]
       THEN /\ pc' = [pc EXCEPT ![n] = "stopped"]
            /\ last' = Op("loop_exit", n)
            /\ UNCHANGED <<routing, stab_call>>
       ELSE IF successor[n] = None \/ ~Reachable(successor[n])
       THEN /\ pc' = [pc EXCEPT ![n] = "fix_fingers"]
            /\ last' = [Op("stabilize", n) EXCEPT !.ok = FALSE]
            /\ UNCHANGED <<routing, stab_call>>
       ELSE LET x == proto_to_node_info(GetPredecessor(successor[n].address)) IN
            /\ IF x # None /\ x.id # NodeId(n)
               THEN /\ successor' = [successor EXCEPT ![n] = x]
                    /\ finger_table' = [finger_table EXCEPT ![n][0] =
                           FingerEntry(FingerStart(NodeId(n), 0), x)]
               ELSE UNCHANGED <<successor, finger_table>>
            /\ pc' = [pc EXCEPT ![n] = "notify"]
            /\ stab_call' = [stab_call EXCEPT ![n] =
                   [NoRpc EXCEPT !.stood = successor'[n]]]
            /\ last' = NoOp
            /\ UNCHANGED <<predecessor, next_finger>>
    /\ UNCHANGED <<serving, stab_running, join_resp, phase, bootstrap, crashes,
                   fix_lookup>>

\* stabilize whose failure is taken as the end of fix_fingers too: the loop
\* goes on with check_predecessor.
Stabilize_Raises(n) ==
    /\ pc[n] = "stabilize"
    /\ IF ~stab_running[n]
       THEN /\ pc' = [pc EXCEPT ![n] = "stopped"]
            /\ last' = Op("loop_exit", n)
            /\ UNCHANGED <<routing, stab_call>>
       ELSE IF successor[n] = None \/ ~Reachable(successor[n])
       THEN /\ pc' = [pc EXCEPT ![n] = "check_predecessor"]
            /\ last' = [Op("stabilize", n) EXCEPT !.ok = FALSE]
            /\ UNCHANGED <<routing, stab_call>>
       ELSE LET x == proto_to_node_info(GetPredecessor(successor[n].address)) IN
            /\ IF /\ x # None
                  /\ x.id # NodeId(n)
                  /\ in_range(x.id, NodeId(n), successor[n].id, FALSE, FALSE)
               THEN /\ successor' = [successor EXCEPT ![n] = x]
                    /\ finger_table' = [finger_table EXCEPT ![n][0] =
                           FingerEntry(FingerStart(NodeId(n), 0), x)]
               ELSE UNCHANGED <<successor, finger_table>>
            /\ pc' = [pc EXCEPT ![n] = "notify"]
            /\ stab_call' = [stab_call EXCEPT ![n] =
                   [NoRpc EXCEPT !.stood = successor'[n]]]
            /\ last' = NoOp
            /\ UNCHANGED <<predecessor, next_finger>>
    /\ UNCHANGED <<serving, stab_running, join_resp, phase, bootstrap, crashes, fix_lookup>>

\* stabilize that gives up a successor it cannot reach: on a failed RPC it
\* falls back to the node itself as successor.
Stabilize_FallBackToSelf(n) ==
    /\ pc[n] = "stabilize"
    /\ IF ~stab_running[n]
       THEN /\ pc' = [pc EXCEPT ![n] = "stopped"]
            /\ last' = Op("loop_exit", n)
            /\ UNCHANGED <<routing, stab_call>>
       ELSE IF successor[n] = None \/ ~Reachable(successor[n])
       THEN /\ pc' = [pc EXCEPT ![n] = "fix_fingers"]
            /\ last' = [Op("stabilize", n) EXCEPT !.ok = FALSE]
            /\ successor' = [successor EXCEPT ![n] = Self(n)]
            /\ finger_table' = [finger_table EXCEPT ![n][0] =
                   FingerEntry(FingerStart(NodeId(n), 0), Self(n))]
            /\ UNCHANGED <<predecessor, next_finger, stab_call>>
       ELSE LET x == proto_to_node_info(GetPredecessor(successor[n].address)) IN
            /\ IF /\ x # None
                  /\ x.id # NodeId(n)
                  /\ in_range(x.id, NodeId(n), successor[n].id, FALSE, FALSE)
               THEN /\ successor' = [successor EXCEPT ![n] = x]
                    /\ finger_table' = [finger_table EXCEPT ![n][0] =
                           FingerEntry(FingerStart(NodeId(n), 0), x)]
               ELSE UNCHANGED <<successor, finger_table>>
            /\ pc' = [pc EXCEPT ![n] = "notify"]
            /\ stab_call' = [stab_call EXCEPT ![n] =
                   [NoRpc EXCEPT !.stood = successor'[n]]]
            /\ last' = NoOp
            /\ UNCHANGED <<predecessor, next_finger>>
    /\ UNCHANGED <<serving, stab_running, join_resp, phase, bootstrap, crashes, fix_lookup>>

\* stabilize that probes the candidate: x is adopted only when it answers.
Stabilize_ProbeCandidate(n) ==
    /\ pc[n] = "stabilize"
    /\ IF ~stab_running[n]
       THEN /\ pc' = [pc EXCEPT ![n] = "stopped"]
            /\ last' = Op("loop_exit", n)
            /\ UNCHANGED <<routing, stab_call>>
       ELSE IF successor[n] = None \/ ~Reachable(successor[n])
       THEN /\ pc' = [pc EXCEPT ![n] = "fix_fingers"]
            /\ last' = [Op("stabilize", n) EXCEPT !.ok = FALSE]
            /\ UNCHANGED <<routing, stab_call>>
       ELSE LET x == proto_to_node_info(GetPredecessor(successor[n].address)) IN
            /\ IF /\ x # None
                  /\ x.id # NodeId(n)
                  /\ in_range(x.id, NodeId(n), successor[n].id, FALSE, FALSE)
                  /\ Reachable(x)
               THEN /\ successor' = [successor EXCEPT ![n] = x]
                    /\ finger_table' = [finger_table EXCEPT ![n][0] =
                           FingerEntry(FingerStart(NodeId(n), 0), x)]
               ELSE UNCHANGED <<successor, finger_table>>
            /\ pc' = [pc EXCEPT ![n] = "notify"]
            /\ stab_call' = [stab_call EXCEPT ![n] =
                   [NoRpc EXCEPT !.stood = successor'[n]]]
            /\ last' = NoOp
            /\ UNCHANGED <<predecessor, next_finger>>
    /\ UNCHANGED <<serving, stab_running, join_resp, phase, bootstrap, crashes, fix_lookup>>

\* Top of stabilization_loop and the first half of Node.stabilize:
\* GetPredecessor at the successor, then the adoption of x.  Any exception
\* (no successor, successor not serving) leaves stabilize through its except.
Stabilize(n) ==
    /\ pc[n] = "stabilize"
    /\ IF ~stab_running[n]
       THEN /\ pc' = [pc EXCEPT ![n] = "stopped"]
            /\ last' = Op("loop_exit", n)
            /\ UNCHANGED <<routing, stab_call>>
       ELSE IF successor[n] = None \/ ~Reachable(successor[n])
       THEN /\ pc' = [pc EXCEPT ![n] = "fix_fingers"]
            /\ last' = [Op("stabilize", n) EXCEPT !.ok = FALSE]
            /\ UNCHANGED <<routing, stab_call>>
       ELSE LET x == proto_to_node_info(GetPredecessor(successor[n].address)) IN
            /\ IF /\ x # None
                  /\ x.id # NodeId(n)
                  /\ in_range(x.id, NodeId(n), successor[n].id, FALSE, FALSE)
               THEN /\ successor' = [successor EXCEPT ![n] = x]
                    /\ finger_table' = [finger_table EXCEPT ![n][0] =
                           FingerEntry(FingerStart(NodeId(n), 0), x)]
               ELSE UNCHANGED <<successor, finger_table>>
            /\ pc' = [pc EXCEPT ![n] = "notify"]
            /\ stab_call' = [stab_call EXCEPT ![n] =
                   [NoRpc EXCEPT !.stood = successor'[n]]]
            /\ last' = NoOp
            /\ UNCHANGED <<predecessor, next_finger>>
    /\ UNCHANGED <<serving, stab_running, join_resp, phase, bootstrap, crashes, fix_lookup>>

\* Second half of Node.stabilize: Notify(self) to the successor as it stands.
StabilizeNotify(n) ==
    /\ pc[n] = "notify"
    /\ IF successor[n] = None \/ ~Reachable(successor[n])
       THEN /\ last' = [Op("stabilize", n) EXCEPT !.ok = FALSE]
            /\ UNCHANGED predecessor
       ELSE LET b == successor[n].address IN
            /\ predecessor' = [predecessor EXCEPT ![b] =
                                  NotifyHandler(b, node_info_to_proto(Self(n)))]
            /\ last' = NoOp
    /\ pc' = [pc EXCEPT ![n] = "fix_fingers"]
    /\ stab_call' = [stab_call EXCEPT ![n] = NoRpc]
    /\ UNCHANGED <<serving, stab_running, successor, finger_table, next_finger,
                   join_resp, phase, bootstrap, crashes, fix_lookup>>

\* Node.fix_fingers, first half: start and successor = find_successor(start).
\* A lookup that raises ends fix_fingers in its except, nothing written and
\* next_finger not advanced.
FixFingers(n) ==
    /\ pc[n] = "fix_fingers"
    /\ LET start == FingerStart(NodeId(n), next_finger[n])
           r == find_successor(n, start)
       IN IF r.raised
          THEN /\ last' = [Op("fix_fingers", n) EXCEPT !.ok = FALSE, !.arg = start]
               /\ pc' = [pc EXCEPT ![n] = "check_predecessor"]
               /\ UNCHANGED fix_lookup
          ELSE /\ fix_lookup' = [fix_lookup EXCEPT ![n] =
                      [pending |-> TRUE, start |-> start, successor |-> r.node]]
               /\ pc' = [pc EXCEPT ![n] = "fix_fingers_write"]
               /\ last' = NoOp
    /\ UNCHANGED <<serving, stab_running, routing, join_resp, stab_call, phase, bootstrap, crashes>>

\* fix_fingers that keeps successor in step with finger 0: when it writes the
\* entry of index 0 it assigns the owner to self.successor too.
FixFingersWrite_SetsSuccessor(n) ==
    /\ pc[n] = "fix_fingers_write"
    /\ fix_lookup[n].pending
    /\ finger_table' =
          IF fix_lookup[n].successor # None
          THEN [finger_table EXCEPT ![n][next_finger[n]] =
                   FingerEntry(fix_lookup[n].start, fix_lookup[n].successor)]
          ELSE finger_table
    /\ successor' =
          IF fix_lookup[n].successor # None /\ next_finger[n] = 0
          THEN [successor EXCEPT ![n] = fix_lookup[n].successor]
          ELSE successor
    /\ next_finger' = [next_finger EXCEPT ![n] = (next_finger[n] + 1) % RING_BITS]
    /\ fix_lookup' = [fix_lookup EXCEPT ![n] = NoLookup]
    /\ last' = [Op("fix_fingers", n) EXCEPT !.arg = fix_lookup[n].start,
                                            !.ret = fix_lookup[n].successor]
    /\ pc' = [pc EXCEPT ![n] = "check_predecessor"]
    /\ UNCHANGED <<serving, stab_running, predecessor, join_resp, stab_call,
                   phase, bootstrap, crashes>>

\* Node.fix_fingers, second half: the entry at next_finger as it now stands is
\* written from the locals, and next_finger advances.  Other threads (a join
\* on the host's thread, inbound RPC handlers) may have run since the lookup.
FixFingersWrite(n) ==
    /\ pc[n] = "fix_fingers_write"
    /\ fix_lookup[n].pending
    /\ finger_table' =
          IF fix_lookup[n].successor # None
          THEN [finger_table EXCEPT ![n][next_finger[n]] =
                   FingerEntry(fix_lookup[n].start, fix_lookup[n].successor)]
          ELSE finger_table
    /\ next_finger' = [next_finger EXCEPT ![n] = (next_finger[n] + 1) % RING_BITS]
    /\ fix_lookup' = [fix_lookup EXCEPT ![n] = NoLookup]
    /\ last' = [Op("fix_fingers", n) EXCEPT !.arg = fix_lookup[n].start,
                                            !.ret = fix_lookup[n].successor]
    /\ pc' = [pc EXCEPT ![n] = "check_predecessor"]
    /\ UNCHANGED <<serving, stab_running, successor, predecessor, join_resp, stab_call,
                   phase, bootstrap, crashes>>

\* check_predecessor that does not ping: the predecessor is left as it is.
CheckPredecessor_NoPing(n) ==
    /\ pc[n] = "check_predecessor"
    /\ UNCHANGED predecessor
    /\ pc' = [pc EXCEPT ![n] = "stabilize"]
    /\ last' = Op("check_predecessor", n)
    /\ UNCHANGED <<serving, stab_running, successor, finger_table, next_finger,
                   join_resp, stab_call, phase, bootstrap, crashes, fix_lookup>>

\* check_predecessor that also handles a failed successor: a successor that
\* does not answer is replaced by the node itself.
CheckPredecessor_RepairsSuccessor(n) ==
    /\ pc[n] = "check_predecessor"
    /\ IF predecessor[n] # None /\ ~Reachable(predecessor[n])
       THEN predecessor' = [predecessor EXCEPT ![n] = None]
       ELSE UNCHANGED predecessor
    /\ IF successor[n] # None /\ ~Reachable(successor[n])
       THEN successor' = [successor EXCEPT ![n] = Self(n)]
       ELSE UNCHANGED successor
    /\ pc' = [pc EXCEPT ![n] = "stabilize"]
    /\ last' = Op("check_predecessor", n)
    /\ UNCHANGED <<serving, stab_running, finger_table, next_finger,
                   join_resp, stab_call, phase, bootstrap, crashes, fix_lookup>>

\* Node.check_predecessor, then the loop sleeps and returns to its top.
CheckPredecessor(n) ==
    /\ pc[n] = "check_predecessor"
    /\ IF predecessor[n] # None /\ ~Reachable(predecessor[n])
       THEN predecessor' = [predecessor EXCEPT ![n] = None]
       ELSE UNCHANGED predecessor
    /\ pc' = [pc EXCEPT ![n] = "stabilize"]
    /\ last' = Op("check_predecessor", n)
    /\ UNCHANGED <<serving, stab_running, successor, finger_table, next_finger,
                   join_resp, stab_call, phase, bootstrap, crashes, fix_lookup>>

\* ------------------------------------------------------ client lookup
\* A foreground caller (server.py put_key / get_key / delete_key) resolves the
\* owner of identifier k at node n with node.find_successor(k).
Lookup(n, k) ==
    /\ phase[n] \in {"STARTED", "LIVE"}
    /\ LET r == find_successor(n, k) IN
       last' = [Op("find_successor", n) EXCEPT !.arg = k, !.ok = ~r.raised,
                                              !.ret = r.node, !.rpcs = r.rpcs,
                                              !.args = r.path]
    /\ UNCHANGED <<serving, stab_running, pc, routing, join_resp, stab_call, phase,
                   bootstrap, crashes, fix_lookup>>

\* ----------------------------------------------------------- failures
\* Fail-stop crash of a started node: its server and its threads are gone.
Crash(n) ==
    /\ phase[n] # "CREATED"
    /\ serving[n]
    /\ crashes < MaxCrashes
    /\ serving' = [serving EXCEPT ![n] = FALSE]
    /\ pc' = [pc EXCEPT ![n] = "dead"]
    /\ join_resp' = [join_resp EXCEPT ![n] = NoCall]
    /\ stab_call' = [stab_call EXCEPT ![n] = NoRpc]
    /\ fix_lookup' = [fix_lookup EXCEPT ![n] = NoLookup]
    /\ phase' = [phase EXCEPT ![n] = "CRASHED"]
    /\ crashes' = crashes + 1
    /\ last' = NoOp
    /\ UNCHANGED <<stab_running, routing, bootstrap>>

\* ----------------------------------------------------------- behaviours
\* The ghost tick counter: a tick begins when the loop leaves its top into
\* stabilize.  With `since_join` every completed join restarts the count on
\* all nodes (ticks begun since the latest join); without, a node's count
\* runs from its start.
CountTicks(since_join, cap) ==
    ticks' = [n \in Addresses |->
                IF since_join /\ \E o \in Addresses : phase[o] # "LIVE" /\ phase'[o] = "LIVE"
                THEN 0
                ELSE IF pc[n] = "stabilize" /\ pc'[n] \in {"notify", "fix_fingers"}
                THEN Bump(ticks[n], cap)
                ELSE ticks[n]]

\* The hosts start the nodes of JoinNodes, join them (to a new ring, to a
\* peer, to an endpoint that is no node of this program), every stabilization
\* thread runs for MaxTicks ticks, and a node may crash.
Next ==
    \/ \E n \in JoinNodes : StartServer(n) /\ CountTicks(FALSE, MaxTicks)
    \/ \E n \in JoinNodes : JoinNil(n) /\ CountTicks(FALSE, MaxTicks)
    \/ \E n \in JoinNodes : \E b \in JoinNodes \cup {ForeignAddr} :
            JoinCall(n, b) /\ CountTicks(FALSE, MaxTicks)
    \/ \E n \in JoinNodes : JoinFinish(n) /\ CountTicks(FALSE, MaxTicks)
    \/ \E n \in JoinNodes : ticks[n] < MaxTicks /\ Stabilize(n) /\ CountTicks(FALSE, MaxTicks)
    \/ \E n \in JoinNodes : StabilizeNotify(n) /\ CountTicks(FALSE, MaxTicks)
    \/ \E n \in JoinNodes : FixFingers(n) /\ CountTicks(FALSE, MaxTicks)
    \/ \E n \in JoinNodes : FixFingersWrite(n) /\ CountTicks(FALSE, MaxTicks)
    \/ \E n \in JoinNodes : CheckPredecessor(n) /\ CountTicks(FALSE, MaxTicks)
    \/ \E n \in JoinNodes : Crash(n) /\ CountTicks(FALSE, MaxTicks)

Spec == Init /\ [][Next]_vars

\* The finger table of node n while join's _init_finger_table computes entry
\* i: the entries below i as join left them, the others as they were before
\* the join.
FingersDuringJoin(n, i) ==
    [finger_table EXCEPT ![n] =
        [j \in FingerIdx |-> IF j < i THEN finger_table[n][j] ELSE last.old_fingers[j]]]

\* The lookup join's _init_finger_table made for entry i of node n.
JoinFingerLookup(n, i) ==
    find_successor_in(successor, FingersDuringJoin(n, i), n, FingerStart(NodeId(n), i))

\* C7: join(nil) post-state.  Immediately after join(nil) returns, successor
\* is the node itself, predecessor is absent, every one of the m finger
\* entries has the node as owner, and join reported success.
C7_JoinNilPostState ==
    last.op = "join_nil" =>
        /\ last.ok
        /\ successor[last.node] = Self(last.node)
        /\ predecessor[last.node] = None
        /\ \A i \in FingerIdx :
              finger_table[last.node][i] =
                  FingerEntry(FingerStart(NodeId(last.node), i), Self(last.node))

\* join(nil) returned on a node whose predecessor had been set (by its own
\* stabilization before the join).
C7_Witness ==
    /\ last.op = "join_nil"
    /\ last.old_predecessor = Self(last.node)
    /\ predecessor[last.node] = None

\* C8: join(bootstrap) post-state.  When the bootstrap FindSuccessor RPC
\* returned a NodeRef, join has set successor to it, left predecessor absent,
\* set every finger entry i to find_successor(start_i) and reported success,
\* whether or not the finger lookups' own RPCs failed.
C8_JoinBootstrapPostState ==
    (last.op = "join" /\ proto_to_node_info(last.resp) # None) =>
        /\ last.ok
        /\ successor[last.node] = proto_to_node_info(last.resp)
        /\ predecessor[last.node] = None
        /\ \A i \in FingerIdx :
              finger_table[last.node][i] =
                  FingerEntry(FingerStart(NodeId(last.node), i),
                              JoinFingerLookup(last.node, i).node)

\* join(bootstrap) succeeded although the bootstrap crashed after it answered
\* and a finger lookup's forwarded RPC failed; the node's predecessor had been
\* set before the join.
C8_Witness ==
    /\ last.op = "join" /\ last.ok
    /\ ~serving[last.peer]
    /\ last.old_predecessor # None
    /\ \E i \in FingerIdx :
          /\ JoinFingerLookup(last.node, i).rpcs > 0
          /\ JoinFingerLookup(last.node, i).path[1] = last.peer

\* C9: a failed join leaves the node retryable.  When join reports failure
\* (the bootstrap RPC failed or yielded no usable successor), the node's
\* successor, predecessor and finger table are what they were before the
\* call, and the node has not joined.
C9_JoinFailureRetryable ==
    (last.op = "join" /\ ~last.ok) =>
        /\ successor[last.node] = last.old_successor
        /\ predecessor[last.node] = last.old_predecessor
        /\ finger_table[last.node] = last.old_fingers
        /\ phase[last.node] = "STARTED"

\* C10: successor is never null.  In every reachable state every node's
\* successor holds a NodeRef.
C10_SuccessorNeverNull == \A n \in Addresses : successor[n] # None

\* ------------------------------------------------------------ solo ring
\* One node alone: its host starts it and creates a ring (a join through an
\* endpoint that is no node may fail before), the stabilization thread runs
\* without bound, and clients look up every identifier.
Identifiers == 0 .. (RING_SIZE - 1)

\* A lookup changes nothing but the ghost record, so a lookup that follows a
\* lookup reaches no state that a single lookup does not reach: the
\* specifications take lookups one at a time.
OneLookup(n, k) == last.op # "find_successor" /\ Lookup(n, k)

NextSolo ==
    \/ StartServer(NodeA) /\ UNCHANGED ticks
    \/ JoinCall(NodeA, ForeignAddr) /\ UNCHANGED ticks
    \/ JoinFinish(NodeA) /\ UNCHANGED ticks
    \/ JoinNil(NodeA) /\ UNCHANGED ticks
    \/ Stabilize(NodeA) /\ UNCHANGED ticks
    \/ StabilizeNotify(NodeA) /\ UNCHANGED ticks
    \/ FixFingers(NodeA) /\ UNCHANGED ticks
    \/ FixFingersWrite(NodeA) /\ UNCHANGED ticks
    \/ CheckPredecessor(NodeA) /\ UNCHANGED ticks
    \/ \E k \in Identifiers : OneLookup(NodeA, k) /\ UNCHANGED ticks

SpecSolo == Created({NodeA}) /\ [][NextSolo]_vars

\* C6: solo ring lookup.  For a node that did join(nil) and is alone in the
\* ring, after any number of stabilization ticks, find_successor(k) returns
\* the node itself for every k in [0, 2^m), with no RPC to a peer.
C6_SoloLookup ==
    (last.op = "find_successor" /\ bootstrap[last.node] = "nil") =>
        /\ last.ok
        /\ last.ret = Self(last.node)
        /\ last.rpcs = 0

\* A lookup of an identifier other than the node's own, after the node's
\* stabilization made it its own predecessor and repaired fingers.
C6_Witness ==
    /\ last.op = "find_successor" /\ bootstrap[last.node] = "nil"
    /\ last.arg = 200
    /\ predecessor[last.node] = Self(last.node)
    /\ next_finger[last.node] = 3
    /\ last.ret = Self(last.node)

\* ------------------------------------------------- two-node scenario
\* Node A at "a:1" creates a ring, then node B at "b:2" joins through A; both
\* hosts started their node before (run.py: start_server, then join), and both
\* stabilization threads run.  The ghost counter counts the ticks begun since
\* the latest join.
NextS2 ==
    \/ \E n \in JoinNodes : StartServer(n) /\ CountTicks(TRUE, ScenarioTicks)
    \/ JoinNil(NodeA) /\ CountTicks(TRUE, ScenarioTicks)
    \/ phase[NodeA] = "LIVE" /\ JoinCall(NodeB, NodeA) /\ CountTicks(TRUE, ScenarioTicks)
    \/ JoinFinish(NodeB) /\ CountTicks(TRUE, ScenarioTicks)
    \/ \E n \in JoinNodes :
            ticks[n] < ScenarioTicks /\ Stabilize(n) /\ CountTicks(TRUE, ScenarioTicks)
    \/ \E n \in JoinNodes : StabilizeNotify(n) /\ CountTicks(TRUE, ScenarioTicks)
    \/ \E n \in JoinNodes : FixFingers(n) /\ CountTicks(TRUE, ScenarioTicks)
    \/ \E n \in JoinNodes : FixFingersWrite(n) /\ CountTicks(TRUE, ScenarioTicks)
    \/ \E n \in JoinNodes : CheckPredecessor(n) /\ CountTicks(TRUE, ScenarioTicks)

SpecS2 == Init /\ [][NextS2]_vars

\* Both nodes of the scenario joined (A created the ring, B joined through A)
\* and each completed at least k ticks begun after B's join.
S2After(k) ==
    /\ bootstrap[NodeA] = "nil"
    /\ bootstrap[NodeB] = NodeA
    /\ ticks[NodeA] >= k /\ pc[NodeA] = "stabilize"
    /\ ticks[NodeB] >= k /\ pc[NodeB] = "stabilize"

\* C1: two-node join.  After A.join(nil), B.join(A) and at least 5 ticks on
\* both nodes with no failure, A.successor == B, B.successor == A,
\* A.predecessor == B and B.predecessor == A.
C1_TwoNodeJoin ==
    S2After(5) =>
        /\ NodeInfoEq(successor[NodeA], Self(NodeB))
        /\ NodeInfoEq(successor[NodeB], Self(NodeA))
        /\ NodeInfoEq(predecessor[NodeA], Self(NodeB))
        /\ NodeInfoEq(predecessor[NodeB], Self(NodeA))

\* ------------------------------------------------------------ ring order
\* analyze.py find_successor_node: the node of N responsible for key_hash, the
\* first node in id order whose id is >= key_hash, else the first node.
find_successor_node(key_hash, N) ==
    LET at_or_after == {n \in N : hash_key(n) >= key_hash}
        lowest(M) == CHOOSE n \in M : \A o \in M : hash_key(n) <= hash_key(o)
    IN IF at_or_after # {} THEN lowest(at_or_after) ELSE lowest(N)

\* The node that follows n and the node that precedes n on the ring of N.
RingNext(n, N) == find_successor_node((hash_key(n) + 1) % RING_SIZE, N)
RingPrev(n, N) == CHOOSE p \in N : RingNext(p, N) = n

\* One pass of node n's stabilization thread, step by step.
Tick(n) ==
    \/ Stabilize(n)
    \/ StabilizeNotify(n)
    \/ FixFingers(n)
    \/ FixFingersWrite(n)
    \/ CheckPredecessor(n)

\* The two-node scenario with no bound on the ticks: the stabilization loop
\* of a started node runs for ever (while self._stabilization_running, with a
\* sleep between passes), so each thread's next step is eventually taken.
NextS2Fair ==
    \/ \E n \in JoinNodes : StartServer(n) /\ UNCHANGED ticks
    \/ JoinNil(NodeA) /\ UNCHANGED ticks
    \/ phase[NodeA] = "LIVE" /\ JoinCall(NodeB, NodeA) /\ UNCHANGED ticks
    \/ JoinFinish(NodeB) /\ UNCHANGED ticks
    \/ \E n \in JoinNodes : Tick(n) /\ UNCHANGED ticks

SpecS2Fair ==
    /\ Init
    /\ [][NextS2Fair]_vars
    /\ \A n \in JoinNodes : WF_vars(Tick(n) /\ UNCHANGED ticks)

\* Every node of N points at the live node that follows it on the ring, and
\* that node's predecessor is the node itself.
SuccessorsConverged(N) ==
    \A n \in N :
        /\ successor[n] # None
        /\ successor[n] = Self(RingNext(n, N))
        /\ predecessor[successor[n].address] = Self(n)

\* The joins of the scenario are done: no join is left to run.
JoinsDone == \A n \in JoinNodes : phase[n] = "LIVE"

\* C2: convergence.  Once the joins have stopped (no failures), repeated
\* stabilization ticks eventually reach and stay in a state where every
\* node's successor is the live node with the smallest id clockwise after it
\* and n.successor.predecessor == n.
C2_Convergence == <>[](JoinsDone => SuccessorsConverged(JoinNodes))

\* ------------------------------------------------------- converged ring
\* The ring invariants of the data model hold for the nodes of N: successor,
\* predecessor and every finger are the nodes the ring order gives.
RingConverged(N) ==
    \A n \in N :
        /\ successor[n] = NodeInfo(hash_key(RingNext(n, N)), RingNext(n, N))
        /\ predecessor[n] = NodeInfo(hash_key(RingPrev(n, N)), RingPrev(n, N))
        /\ \A i \in FingerIdx :
              LET start == FingerStart(hash_key(n), i)
                  owner == find_successor_node(start, N)
              IN finger_table[n][i] = FingerEntry(start, NodeInfo(hash_key(owner), owner))

\* A quiescent, converged ring of the nodes of N, every node serving and its
\* stabilization thread asleep at the top of its loop.
ConvergedRing(N) ==
    /\ serving = [n \in N |-> TRUE]
    /\ stab_running = [n \in N |-> TRUE]
    /\ pc = [n \in N |-> "stabilize"]
    /\ successor = [n \in N |-> NodeInfo(hash_key(RingNext(n, N)), RingNext(n, N))]
    /\ predecessor = [n \in N |-> NodeInfo(hash_key(RingPrev(n, N)), RingPrev(n, N))]
    /\ finger_table = [n \in N |-> [i \in FingerIdx |->
            LET start == FingerStart(hash_key(n), i)
                owner == find_successor_node(start, N)
            IN FingerEntry(start, NodeInfo(hash_key(owner), owner))]]
    /\ next_finger = [n \in N |-> 0]
    /\ join_resp = [n \in N |-> NoCall]
    /\ stab_call = [n \in N |-> NoRpc]
    /\ fix_lookup = [n \in N |-> NoLookup]
    /\ phase = [n \in N |-> "LIVE"]
    /\ bootstrap = [n \in N |-> "ring"]
    /\ ticks = [n \in N |-> 0]
    /\ crashes = 0
    /\ last = NoOp

\* The ring of ids 10, 80, 150, 220; clients look up every identifier at
\* every node.
NextRing ==
    \E n \in RingNodes : \E k \in Identifiers : OneLookup(n, k) /\ UNCHANGED ticks

SpecRing == ConvergedRing(RingNodes) /\ [][NextRing]_vars

\* C3: lookup correctness.  In a converged ring (ids 10, 80, 150, 220, m = 8)
\* find_successor(k) issued at any node returns, for every k, the node whose
\* id is the first identifier >= k clockwise (k = 10 -> 10, k = 11 -> 80, ...).
C3_LookupCorrect ==
    (last.op = "find_successor" /\ RingConverged(Addresses)) =>
        /\ last.ok
        /\ last.ret = Self(find_successor_node(last.arg, Addresses))

\* C4: lookup agreement.  In a quiescent, converged ring, for every k,
\* find_successor(k) returns the same NodeRef at whichever node it is issued
\* (including the node whose own id is k).
C4_LookupAgreement ==
    (last.op = "find_successor" /\ RingConverged(Addresses)) =>
        \A n \in Addresses : find_successor(n, last.arg).node = last.ret

\* C5: own-point ownership.  In a ring of at least two distinct nodes,
\* find_successor(id) at node n resolves to n for id == n.id and to
\* n.successor for id == n.successor.id.
C5_OwnPoint ==
    (last.op = "find_successor" /\ Cardinality(Addresses) >= 2) =>
        /\ last.arg = NodeId(last.node) => last.ret = Self(last.node)
        /\ last.arg = successor[last.node].id => last.ret = successor[last.node]

\* ------------------------------------------------------ lookup failures
\* C11: find_successor never fails toward its caller.  Every call returns a
\* NodeRef: an error of the outbound FindSuccessor RPC is answered with the
\* local successor, and no error reaches the caller.
C11_LookupNeverFails ==
    last.op = "find_successor" => (last.ok /\ last.ret # None)

\* ------------------------------------------------------ check_predecessor
\* C12: crash detection.  The check_predecessor that runs on a node whose
\* predecessor no longer answers Ping sets predecessor to absent; when the
\* predecessor answers (or there is none), predecessor is left unchanged.
C12_CrashDetection ==
    last.op = "check_predecessor" =>
        predecessor[last.node] =
            IF last.old_predecessor # None /\ ~Reachable(last.old_predecessor)
            THEN None
            ELSE last.old_predecessor

\* check_predecessor ran on a node whose predecessor, another node, had
\* crashed, and cleared it.
C12_Witness ==
    /\ last.op = "check_predecessor"
    /\ last.old_predecessor # None
    /\ last.old_predecessor.address # last.node
    /\ phase[last.old_predecessor.address] = "CRASHED"
    /\ predecessor[last.node] = None

\* check_predecessor ran on a node whose predecessor, another node, answers
\* Ping, and kept it.
C12_WitnessAlive ==
    /\ last.op = "check_predecessor"
    /\ last.old_predecessor # None
    /\ last.old_predecessor.address # last.node
    /\ serving[last.old_predecessor.address]
    /\ predecessor[last.node] = last.old_predecessor

\* ------------------------------------------------------------ three nodes
\* Three nodes (ids 71, 65, 192): the hosts start them, A creates the ring,
\* B joins through A, C joins through A or B, and every stabilization thread
\* runs for MaxTicks3 ticks.  No node fails.
Next3 ==
    \/ \E n \in ThreeNodes : StartServer(n) /\ CountTicks(FALSE, MaxTicks3)
    \/ JoinNil(NodeA) /\ CountTicks(FALSE, MaxTicks3)
    \/ phase[NodeA] = "LIVE" /\ JoinCall(NodeB, NodeA) /\ CountTicks(FALSE, MaxTicks3)
    \/ \E b \in {NodeA, NodeB} :
          phase[b] = "LIVE" /\ JoinCall(NodeC, b) /\ CountTicks(FALSE, MaxTicks3)
    \/ \E n \in ThreeNodes : JoinFinish(n) /\ CountTicks(FALSE, MaxTicks3)
    \/ \E n \in ThreeNodes :
          ticks[n] < MaxTicks3 /\ Stabilize(n) /\ CountTicks(FALSE, MaxTicks3)
    \/ \E n \in ThreeNodes : StabilizeNotify(n) /\ CountTicks(FALSE, MaxTicks3)
    \/ \E n \in ThreeNodes : FixFingers(n) /\ CountTicks(FALSE, MaxTicks3)
    \/ \E n \in ThreeNodes : FixFingersWrite(n) /\ CountTicks(FALSE, MaxTicks3)
    \/ \E n \in ThreeNodes : CheckPredecessor(n) /\ CountTicks(FALSE, MaxTicks3)

Spec3 == Created(ThreeNodes) /\ [][Next3]_vars

\* ------------------------------------------------------------ finger table
\* C13: finger start invariant.  In every reachable state every populated
\* finger_table[i] of every node has start == (self.id + 2^i) mod 2^m.
C13_FingerStart ==
    \A n \in Addresses : \A i \in FingerIdx :
        finger_table[n][i] # NoEntry =>
            finger_table[n][i].start = FingerStart(NodeId(n), i)

\* In the three-node ring C, joined through A, has adopted B as successor in
\* stabilize (which wrote finger 0), and a fix_fingers has just written an
\* entry.
C13_Witness ==
    /\ bootstrap[NodeC] = NodeA
    /\ successor[NodeC] = Self(NodeB)
    /\ finger_table[NodeC][0] = FingerEntry(FingerStart(NodeId(NodeC), 0), Self(NodeB))
    /\ last.op = "fix_fingers" /\ last.ok
    /\ finger_table[last.node][last.old_next_finger] = FingerEntry(last.arg, last.ret)

\* C14: finger 0 mirrors successor.  In every state where a node has
\* completed join and neither join nor stabilize is mid-execution on it,
\* the owner of finger_table[0] is the node's successor, also when the join
\* ran while the stabilization loop was ticking.
C14_FingerZeroMirrorsSuccessor ==
    \A n \in Addresses :
        (phase[n] = "LIVE" /\ pc[n] # "notify") =>
            /\ finger_table[n][0] # NoEntry
            /\ finger_table[n][0].successor = successor[n]

\* ------------------------------------------------------- range predicate
\* The arithmetic of the range claims is done on a ring of 2^4 identifiers.
SmallBits == 4
SmallRing == 0 .. (2 ^ SmallBits - 1)

\* The naive clockwise walk from a to b (a # b) on the ring of SmallRing:
\* the identifiers met strictly between a and b, going a+1, a+2, ...
RECURSIVE WalkBetween(_, _)
WalkBetween(a, b) ==
    LET next == (a + 1) % (2 ^ SmallBits)
    IN IF next = b THEN {} ELSE {next} \cup WalkBetween(next, b)

\* k lies on the arc walked from a to b, the endpoints included as asked.
WalkOracle(k, a, b, inc_a, inc_b) ==
    \/ k \in WalkBetween(a, b)
    \/ inc_a /\ k = a
    \/ inc_b /\ k = b

\* A call self._in_range(key, start, end, inclusive_start, inclusive_end) on
\* a constructed node; the ghost record keeps the arguments and the result.
InRangeCall(n, key, start, end, inclusive_start, inclusive_end) ==
    /\ last' = [NoOp EXCEPT !.op = "in_range", !.node = n, !.arg = key,
                            !.args = <<start, end, inclusive_start, inclusive_end>>,
                            !.value = in_range(key, start, end,
                                               inclusive_start, inclusive_end)]
    /\ UNCHANGED <<serving, stab_running, pc, routing, join_resp, stab_call, fix_lookup, phase,
                   bootstrap, ticks, crashes>>

\* The call changes nothing but the ghost record: calls are taken one at a
\* time, each from the constructed node's state.
NextRange ==
    /\ last.op # "in_range"
    /\ \E key \in SmallRing, start \in SmallRing, end \in SmallRing :
          \E inclusive_start \in BOOLEAN, inclusive_end \in BOOLEAN :
              InRangeCall(NodeA, key, start, end, inclusive_start, inclusive_end)

SpecRange == Created({NodeA}) /\ [][NextRange]_vars

\* C15: range predicate against the walk.  For all a # b, all k and all four
\* inclusivity pairs (ring of 2^4 identifiers), _in_range(k, a, b, inc_a,
\* inc_b) is the result of walking the ring clockwise from a to b, whether
\* a < b or the arc wraps.
C15_RangeMatchesWalk ==
    (last.op = "in_range" /\ last.args[1] # last.args[2]) =>
        last.value = WalkOracle(last.arg, last.args[1], last.args[2],
                                last.args[3], last.args[4])

\* A call on a wrapping arc, key inside the wrapped part: (14, 2] holds 1.
C15_Witness ==
    /\ last.op = "in_range"
    /\ last.arg = 1 /\ last.args = <<14, 2, FALSE, TRUE>>
    /\ last.value = TRUE

\* C16: tie-break and totality.  When a == b, _in_range returns inc_a OR
\* inc_b for every k (the arc is empty when both ends are exclusive), and
\* every call returns a boolean.
C16_RangeTieBreak ==
    last.op = "in_range" =>
        /\ last.value \in BOOLEAN
        /\ last.args[1] = last.args[2] => last.value = (last.args[3] \/ last.args[4])

\* A call with a == b and both ends exclusive, on a key other than a: FALSE.
C16_Witness ==
    /\ last.op = "in_range"
    /\ last.arg = 9 /\ last.args = <<5, 5, FALSE, FALSE>>
    /\ last.value = FALSE

\* ------------------------------------------------------------------ notify
\* The NodeRef of a peer with the given id (any process may send Notify).
PeerRef(id) == NodeInfo(id, "peer")

\* A call self.notify(p) on node n.
NotifyCall(n, p) ==
    /\ predecessor' = [predecessor EXCEPT ![n] = notify(n, p)]
    /\ last' = [Op("notify", n) EXCEPT !.arg = p.id, !.ret = p]
    /\ UNCHANGED <<serving, stab_running, pc, successor, finger_table, next_finger,
                   join_resp, stab_call, fix_lookup, phase, bootstrap, ticks, crashes>>

\* Node a:1 (id 71), constructed: a first notify from any peer, then a second
\* from any peer, so that the second call meets every predecessor.
NextNotify ==
    \/ /\ last.op = "none"
       /\ \E id \in Identifiers : NotifyCall(NodeA, PeerRef(id))
    \/ /\ last.op = "notify" /\ last.old_predecessor = None
       /\ \E id \in Identifiers : NotifyCall(NodeA, PeerRef(id))

SpecNotify == Created({NodeA}) /\ [][NextNotify]_vars

\* C17: notify is idempotent.  After notify(p), in whatever state it was
\* called, a second notify(p) leaves predecessor as the first call left it.
C17_NotifyIdempotent ==
    last.op = "notify" => notify(last.node, last.ret) = predecessor[last.node]

\* notify(p) replaced a predecessor by a closer one: predecessor 10, p = 65,
\* node 71.
C17_Witness ==
    /\ last.op = "notify"
    /\ last.old_predecessor = PeerRef(10)
    /\ last.ret = PeerRef(65)
    /\ predecessor[last.node] = PeerRef(65)

\* ------------------------------------------------------------- fix_fingers
\* C18: round-robin finger repair.  next_finger is always in [0, m); every
\* fix_fingers call writes at most the entry at the next_finger it found and
\* advances next_finger by one modulo m, whatever its lookup met.
C18_RoundRobin ==
    /\ \A n \in Addresses : next_finger[n] \in FingerIdx
    /\ last.op = "fix_fingers" =>
          /\ next_finger[last.node] = (last.old_next_finger + 1) % RING_BITS
          /\ \A i \in FingerIdx :
                i # last.old_next_finger =>
                    finger_table[last.node][i] = last.old_fingers[i]

\* -------------------------------------------------------- finger convergence
\* Every finger of every node of N is populated and owned by the node the
\* ring order gives for its start.
FingersConverged(N) ==
    \A n \in N : \A i \in FingerIdx :
        /\ finger_table[n][i] # NoEntry
        /\ finger_table[n][i].successor =
               Self(find_successor_node(FingerStart(NodeId(n), i), N))

\* C19: finger convergence.  In a quiescent ring whose nodes run
\* stabilization, from some number of ticks on (N + m) every finger of every
\* node is owned by the true successor of its start.
C19_FingerConvergence == <>[](JoinsDone => FingersConverged(JoinNodes))

\* ------------------------------------------------------------ routing cost
\* Converged rings of every set of at least two nodes out of seven (ids 10,
\* 65, 71, 80, 150, 192, 220); clients look up every identifier at every
\* node.
RingPool == RingNodes \cup ThreeNodes

InitRings == \E N \in SUBSET RingPool : Cardinality(N) >= 2 /\ ConvergedRing(N)

NextRings ==
    \E n \in Addresses : \E k \in Identifiers : OneLookup(n, k) /\ UNCHANGED ticks

SpecRings == InitRings /\ [][NextRings]_vars

\* C20: logarithmic routing.  With converged finger tables in a ring of N
\* nodes, a find_successor call returns after at most m forwarded
\* FindSuccessor RPCs, and after at most log2(N) + 1 of them.
C20_LogarithmicRouting ==
    (last.op = "find_successor" /\ RingConverged(Addresses)) =>
        /\ last.ok
        /\ last.rpcs <= RING_BITS
        /\ 2 ^ last.rpcs <= 2 * Cardinality(Addresses)

\* A lookup in the ring of all seven nodes that was forwarded three times.
C20_Witness ==
    /\ last.op = "find_successor"
    /\ Addresses = RingPool
    /\ RingConverged(Addresses)
    /\ last.rpcs = 3

\* ------------------------------------------------------------------- stop
\* Node.stop_server up to the thread join of stop_stabilization: running and
\* _stabilization_running are cleared.  The gRPC server, which start_server
\* returned to the host, is not touched.
StopServer(n) ==
    /\ phase[n] \in {"STARTED", "LIVE"}
    /\ stab_running' = [stab_running EXCEPT ![n] = FALSE]
    /\ phase' = [phase EXCEPT ![n] = "STOPPING"]
    /\ last' = NoOp
    /\ UNCHANGED <<serving, pc, routing, join_resp, stab_call, bootstrap, crashes, fix_lookup>>

\* stop_server returns: _stabilization_thread.join(timeout=5.0) has returned,
\* the thread ended or the five seconds over.
StopReturn(n) ==
    /\ phase[n] = "STOPPING"
    /\ phase' = [phase EXCEPT ![n] = "STOPPED"]
    /\ last' = NoOp
    /\ UNCHANGED <<serving, stab_running, pc, routing, join_resp, stab_call, bootstrap,
                   crashes, fix_lookup>>

\* The host's server.stop(0), which it calls after node.stop_server().
ServerStop(n) ==
    /\ phase[n] = "STOPPED"
    /\ serving' = [serving EXCEPT ![n] = FALSE]
    /\ phase' = [phase EXCEPT ![n] = "CLOSED"]
    /\ last' = NoOp
    /\ UNCHANGED <<stab_running, pc, routing, join_resp, stab_call, bootstrap, crashes, fix_lookup>>

\* The two-node scenario (A creates the ring, B joins through A) in which
\* each host may stop its node at any time after its start.  Every loop
\* begins at most StopTicks ticks; a stopped loop may always take its exit.
\* The next step of a loop is eventually taken (the thread is scheduled).
StopTick(n) ==
    \/ (ticks[n] < StopTicks \/ ~stab_running[n]) /\ Stabilize(n)
    \/ StabilizeNotify(n)
    \/ FixFingers(n)
    \/ FixFingersWrite(n)
    \/ CheckPredecessor(n)

NextStop ==
    \/ \E n \in JoinNodes : StartServer(n) /\ CountTicks(FALSE, StopTicks)
    \/ JoinNil(NodeA) /\ CountTicks(FALSE, StopTicks)
    \/ phase[NodeA] = "LIVE" /\ JoinCall(NodeB, NodeA) /\ CountTicks(FALSE, StopTicks)
    \/ JoinFinish(NodeB) /\ CountTicks(FALSE, StopTicks)
    \/ \E n \in JoinNodes : StopTick(n) /\ CountTicks(FALSE, StopTicks)
    \/ \E n \in JoinNodes : StopServer(n) /\ CountTicks(FALSE, StopTicks)
    \/ \E n \in JoinNodes : StopReturn(n) /\ CountTicks(FALSE, StopTicks)
    \/ \E n \in JoinNodes : ServerStop(n) /\ CountTicks(FALSE, StopTicks)

SpecStop ==
    /\ Init
    /\ [][NextStop]_vars
    /\ \A n \in JoinNodes : WF_vars(StopTick(n) /\ CountTicks(FALSE, StopTicks))

\* stop_server has been called on the node.
StopCalled(n) == phase[n] \in {"STOPPING", "STOPPED", "CLOSED"}

\* C21: cooperative stop.  After stop_server() on a running node the
\* stabilization loop begins no further tick, ends only at the top of the
\* loop (never inside stabilize, fix_fingers or check_predecessor), stays
\* ended, and does end: the tick in progress is finished and the loop exits.
C21_CooperativeStop ==
    /\ [][\A n \in Addresses :
            /\ StopCalled(n) =>
                  ~(pc[n] = "stabilize" /\ pc'[n] \in {"notify", "fix_fingers"})
            /\ (pc'[n] = "stopped" /\ pc[n] # "stopped") =>
                  (pc[n] = "stabilize" /\ StopCalled(n))
            /\ pc[n] = "stopped" => pc'[n] = "stopped"]_vars
    /\ \A n \in JoinNodes : StopCalled(n) ~> (pc[n] = "stopped")

\* The loop of a node that had joined and begun a tick has just ended, its
\* stop_server still waiting for the thread.
C21_Witness ==
    /\ last.op = "loop_exit"
    /\ phase[last.node] = "STOPPING"
    /\ bootstrap[last.node] # ""
    /\ ticks[last.node] >= 1
    /\ pc[last.node] = "stopped"

\* stop_server was called while the node's tick was inside fix_fingers.
C21_WitnessMidTick ==
    \E n \in Addresses : StopCalled(n) /\ pc[n] = "fix_fingers_write"

\* C22: stop takes the node off the network.  After stop_server has returned
\* the node no longer serves peer RPCs: the Ping that another node's
\* check_predecessor sends to it fails (and clears that node's predecessor),
\* as it would for a crashed node.
C22_StopClosesServer ==
    /\ \A n \in Addresses : phase[n] = "STOPPED" => ~serving[n]
    /\ (/\ last.op = "check_predecessor"
        /\ last.old_predecessor # None
        /\ last.old_predecessor.address # last.node
        /\ phase[last.old_predecessor.address] = "STOPPED")
          => predecessor[last.node] = None

\* ---------------------------------------------------------------- writers
\* The step is one of node b's own stabilization thread (its position moves)
\* or of its join (its lifecycle moves).
OwnStep(b) == pc'[b] # pc[b] \/ phase'[b] # phase[b]

\* C23: single-writer discipline.  Every write to a node's successor,
\* predecessor, finger entries and next_finger is made by that node's
\* stabilization task or by its join; inbound RPC handlers and foreground
\* find_successor callers only read them.
C23_SingleWriter ==
    [][\A b \in Addresses :
          (\/ successor'[b] # successor[b]
           \/ predecessor'[b] # predecessor[b]
           \/ finger_table'[b] # finger_table[b]
           \/ next_finger'[b] # next_finger[b]) => OwnStep(b)]_vars

\* ------------------------------------------------- stabilize, RPC by RPC
\* Node.stabilize with its two outbound RPCs as separate steps: the request
\* is in flight until the callee's handler, on a worker thread of the
\* callee's gRPC server, has served it.  Top of the loop and call of
\* GetPredecessor at the successor.
StabilizeCall(n) ==
    /\ pc[n] = "stabilize"
    /\ IF ~stab_running[n]
       THEN /\ pc' = [pc EXCEPT ![n] = "stopped"]
            /\ UNCHANGED stab_call
       ELSE IF successor[n] = None \/ ~Reachable(successor[n])
       THEN /\ pc' = [pc EXCEPT ![n] = "fix_fingers"]
            /\ UNCHANGED stab_call
       ELSE /\ stab_call' = [stab_call EXCEPT ![n] =
                   [NoRpc EXCEPT !.pending = TRUE, !.method = "GetPredecessor",
                                 !.to = successor[n].address]]
            /\ pc' = [pc EXCEPT ![n] = "await_get_predecessor"]
    /\ last' = NoOp
    /\ UNCHANGED <<serving, stab_running, routing, join_resp, phase, bootstrap, crashes,
                   fix_lookup>>

\* A GetPredecessor handler that takes the node's state lock, which the
\* node's own stabilize holds while its outbound RPC is in flight.
ServeGetPredecessor_Locked(b, n) ==
    /\ stab_call[n].pending /\ ~stab_call[n].served
    /\ stab_call[n].method = "GetPredecessor" /\ stab_call[n].to = b
    /\ serving[b]
    /\ ~stab_call[b].pending
    /\ stab_call' = [stab_call EXCEPT ![n].served = TRUE, ![n].resp = GetPredecessor(b)]
    /\ last' = NoOp
    /\ UNCHANGED <<serving, stab_running, pc, routing, join_resp, phase, bootstrap, crashes,
                   fix_lookup>>

\* Node.GetPredecessor at node b serves the call of node n: it reads
\* b.predecessor, whatever b's own threads are doing.
ServeGetPredecessor(b, n) ==
    /\ stab_call[n].pending /\ ~stab_call[n].served
    /\ stab_call[n].method = "GetPredecessor" /\ stab_call[n].to = b
    /\ serving[b]
    /\ stab_call' = [stab_call EXCEPT ![n].served = TRUE, ![n].resp = GetPredecessor(b)]
    /\ last' = NoOp
    /\ UNCHANGED <<serving, stab_running, pc, routing, join_resp, phase, bootstrap, crashes,
                   fix_lookup>>

\* stabilize receives x, decides the adoption, and calls Notify at the
\* successor as it now stands.
StabilizeAdopt(n) ==
    /\ pc[n] = "await_get_predecessor"
    /\ stab_call[n].pending /\ stab_call[n].served
    /\ LET x == proto_to_node_info(stab_call[n].resp)
           adopt == /\ x # None
                    /\ x.id # NodeId(n)
                    /\ in_range(x.id, NodeId(n), successor[n].id, FALSE, FALSE)
           succ == IF adopt THEN x ELSE successor[n]
       IN /\ successor' = [successor EXCEPT ![n] = succ]
          /\ finger_table' = IF adopt
                             THEN [finger_table EXCEPT ![n][0] =
                                     FingerEntry(FingerStart(NodeId(n), 0), x)]
                             ELSE finger_table
          /\ IF Reachable(succ)
             THEN /\ stab_call' = [stab_call EXCEPT ![n] =
                         [NoRpc EXCEPT !.pending = TRUE, !.method = "Notify",
                                       !.to = succ.address, !.stood = succ]]
                  /\ pc' = [pc EXCEPT ![n] = "await_notify"]
             ELSE /\ stab_call' = [stab_call EXCEPT ![n] = NoRpc]
                  /\ pc' = [pc EXCEPT ![n] = "fix_fingers"]
    /\ last' = NoOp
    /\ UNCHANGED <<serving, stab_running, predecessor, next_finger, join_resp, phase,
                   bootstrap, crashes, fix_lookup>>

\* Node.Notify at node b serves the call of node n.
ServeNotify(b, n) ==
    /\ stab_call[n].pending /\ ~stab_call[n].served
    /\ stab_call[n].method = "Notify" /\ stab_call[n].to = b
    /\ serving[b]
    /\ predecessor' = [predecessor EXCEPT ![b] =
                          NotifyHandler(b, node_info_to_proto(Self(n)))]
    /\ stab_call' = [stab_call EXCEPT ![n].served = TRUE]
    /\ last' = NoOp
    /\ UNCHANGED <<serving, stab_running, pc, successor, finger_table, next_finger,
                   join_resp, phase, bootstrap, crashes, fix_lookup>>

\* Notify has returned: stabilize is over.
StabilizeReturn(n) ==
    /\ pc[n] = "await_notify"
    /\ stab_call[n].pending /\ stab_call[n].served
    /\ stab_call' = [stab_call EXCEPT ![n] = NoRpc]
    /\ pc' = [pc EXCEPT ![n] = "fix_fingers"]
    /\ last' = NoOp
    /\ UNCHANGED <<serving, stab_running, routing, join_resp, phase, bootstrap, crashes,
                   fix_lookup>>

\* One step of node n's stabilization thread, and one step of a worker
\* thread of node b's server.
MutualTick(n) ==
    \/ StabilizeCall(n)
    \/ StabilizeAdopt(n)
    \/ StabilizeReturn(n)
    \/ FixFingers(n)
    \/ FixFingersWrite(n)
    \/ CheckPredecessor(n)

Serve(b) ==
    \E n \in Addresses : ServeGetPredecessor(b, n) \/ ServeNotify(b, n)

\* The nodes a:1 and b:2 in a converged ring, each the other's successor,
\* their loops running.  Threads are scheduled and a server with
\* free workers serves a request: every enabled step is eventually taken.
InitMutual == ConvergedRing(JoinNodes)

NextMutual ==
    \/ \E n \in Addresses : MutualTick(n) /\ UNCHANGED ticks
    \/ \E b \in Addresses : Serve(b) /\ UNCHANGED ticks

SpecMutual ==
    /\ InitMutual
    /\ [][NextMutual]_vars
    /\ \A n \in JoinNodes : WF_vars(MutualTick(n) /\ UNCHANGED ticks)
    /\ \A b \in JoinNodes : WF_vars(Serve(b) /\ UNCHANGED ticks)

\* C24: no deadlock under mutual stabilization.  When two nodes stabilize
\* against each other at the same time, a request in flight can always be
\* served (the callee holds nothing locked while its own RPC is out), and
\* every stabilize call that was begun completes.
C24_NoDeadlock ==
    /\ [](\A n \in Addresses :
            (stab_call[n].pending /\ ~stab_call[n].served) =>
                ENABLED Serve(stab_call[n].to))
    /\ \A n \in JoinNodes :
          stab_call[n].pending ~>
              (pc[n] = "fix_fingers" /\ ~stab_call[n].pending)

\* Both nodes are inside stabilize, each with GetPredecessor out at the
\* other, and both requests have been served.
C24_Witness ==
    \E a, b \in Addresses :
        /\ a # b
        /\ stab_call[a].pending /\ stab_call[a].method = "GetPredecessor"
        /\ stab_call[a].to = b /\ stab_call[a].served
        /\ stab_call[b].pending /\ stab_call[b].method = "GetPredecessor"
        /\ stab_call[b].to = a /\ stab_call[b].served

\* ------------------------------------------------------ stabilize's rules
\* C25: stabilize adoption rule.  With x the predecessor reported by the
\* current successor, stabilize sets successor to x and the owner of
\* finger_table[0] to x exactly when x is present, x.id # self.id and x.id
\* lies in the open arc (self.id, successor.id); in every other case
\* successor and the finger table are left as they were.
C25_StabilizeAdoption ==
    [][\A n \in Addresses :
          (pc[n] = "stabilize" /\ pc'[n] = "notify") =>
              LET s == successor[n]
                  x == predecessor[s.address]
                  adopt == /\ x # None
                           /\ x.id # NodeId(n)
                           /\ in_range(x.id, NodeId(n), s.id, FALSE, FALSE)
              IN IF adopt
                 THEN /\ successor'[n] = x
                      /\ finger_table'[n][0].successor = x
                      /\ \A i \in FingerIdx \ {0} :
                            finger_table'[n][i] = finger_table[n][i]
                 ELSE /\ successor'[n] = s
                      /\ finger_table'[n] = finger_table[n]]_vars

\* C, which joined through A, has just adopted B (A's predecessor, inside the
\* arc from C to A) in stabilize and is about to notify it.
C25_Witness ==
    /\ pc[NodeC] = "notify"
    /\ bootstrap[NodeC] = NodeA
    /\ predecessor[NodeA] = Self(NodeB)
    /\ successor[NodeC] = Self(NodeB)
    /\ finger_table[NodeC][0].successor = Self(NodeB)

\* B is about to notify A, the successor it kept: A's predecessor C is no
\* node of the arc from B to A.
C25_WitnessKept ==
    /\ pc[NodeB] = "notify"
    /\ predecessor[NodeA] = Self(NodeC)
    /\ successor[NodeB] = Self(NodeA)

\* The step is the Notify of node n's stabilize, delivered to node b and to
\* no other node: b's handler ran on Notify(n), no other predecessor moved.
NotifySentTo(n, b) ==
    /\ pc[n] = "notify" /\ pc'[n] = "fix_fingers"
    /\ b \in Addresses
    /\ predecessor'[b] = NotifyHandler(b, node_info_to_proto(Self(n)))
    /\ \A o \in Addresses \ {b} : predecessor'[o] = predecessor[o]

\* Within one stabilize call the Notify step follows the step of
\* GetPredecessor and adoption, and the call ends with it: one Notify.
NotifyOrder(n) ==
    /\ (pc'[n] = "notify" /\ pc[n] # "notify") => pc[n] = "stabilize"
    /\ (pc[n] = "notify" /\ pc'[n] # "notify") => pc'[n] = "fix_fingers"

\* C26: stabilize ordering.  Within one stabilize call GetPredecessor
\* precedes the adoption decision, which precedes Notify; Notify(self) is
\* sent exactly once and to the successor as it stood after the adoption
\* step (x when x was adopted, otherwise the old successor).
C26_StabilizeOrdering ==
    [][\A n \in Addresses :
          /\ NotifyOrder(n)
          /\ (pc[n] = "notify" /\ pc'[n] # "notify") =>
                NotifySentTo(n, stab_call[n].stood.address)]_vars

\* ------------------------------------------------------- inbound Notify
\* The requests a peer may send: every NodeRef of address "peer", and the
\* absent ones (no id, no address, neither).
NotifyRequests ==
    {node_info_to_proto(PeerRef(id)) : id \in Identifiers}
        \cup {[id |-> IntToStr(id), address |-> ""] : id \in Identifiers}
        \cup {[id |-> <<>>, address |-> "peer"], EmptyProto}

\* The Notify RPC served by node n.
NotifyRpc(n, request) ==
    /\ predecessor' = [predecessor EXCEPT ![n] = NotifyHandler(n, request)]
    /\ last' = [Op("Notify", n) EXCEPT !.resp = request]
    /\ UNCHANGED <<serving, stab_running, pc, successor, finger_table, next_finger,
                   join_resp, stab_call, fix_lookup, phase, bootstrap, ticks, crashes>>

\* Node a:1 (id 71) serves a first Notify, then, its predecessor set or still
\* absent, a second.
NextNotifyRpc ==
    \/ /\ last.op = "none"
       /\ \E request \in NotifyRequests : NotifyRpc(NodeA, request)
    \/ /\ last.op = "Notify" /\ last.old_predecessor = None
       /\ \E request \in NotifyRequests : NotifyRpc(NodeA, request)

SpecNotifyRpc == Created({NodeA}) /\ [][NextNotifyRpc]_vars

\* x lies strictly between a and b walking clockwise from a (no identifier
\* when a = b).
OpenArc(x, a, b) ==
    LET dx == (x - a + RING_SIZE) % RING_SIZE
        db == (b - a + RING_SIZE) % RING_SIZE
    IN 0 < dx /\ dx < db

\* C27: notify adoption rule.  notify(p) sets predecessor to p if and only if
\* predecessor is absent or p.id lies in the open arc (predecessor.id,
\* self.id); otherwise predecessor is left unchanged.  An inbound Notify that
\* carries an absent NodeRef (empty id or empty address) changes nothing.
C27_NotifyAdoption ==
    last.op = "Notify" =>
        LET old == last.old_predecessor
            absent == last.resp.id = <<>> \/ last.resp.address = ""
            p == NodeInfo(StrToInt(last.resp.id), last.resp.address)
        IN predecessor[last.node] =
              IF absent THEN old
              ELSE IF old = None \/ OpenArc(p.id, old.id, NodeId(last.node))
              THEN p
              ELSE old

\* A Notify from 65 replaced predecessor 200 at node 71 (65 lies between 200
\* and 71 through 0).
C27_Witness ==
    /\ last.op = "Notify"
    /\ last.old_predecessor = PeerRef(200)
    /\ last.resp = node_info_to_proto(PeerRef(65))
    /\ predecessor[last.node] = PeerRef(65)

\* A Notify from 30, outside the arc from 65 to 71, left predecessor 65; and
\* a Notify with an id and no address left the predecessor absent.
C27_WitnessKept ==
    \/ /\ last.op = "Notify"
       /\ last.old_predecessor = PeerRef(65)
       /\ last.resp = node_info_to_proto(PeerRef(30))
       /\ predecessor[last.node] = PeerRef(65)
    \/ /\ last.op = "Notify"
       /\ last.old_predecessor = None
       /\ last.resp = [id |-> IntToStr(30), address |-> ""]
       /\ predecessor[last.node] = None

\* ------------------------------------------------------ the routing step
\* The owner of the highest-indexed populated finger of node n whose owner
\* lies strictly between n and id, or n itself when there is none.
HighestFingerBefore(n, id) ==
    LET Q == {i \in FingerIdx :
                /\ finger_table[n][i] # NoEntry
                /\ finger_table[n][i].successor # None
                /\ OpenArc(finger_table[n][i].successor.id, NodeId(n), id)}
    IN IF Q = {} THEN Self(n)
       ELSE finger_table[n][CHOOSE i \in Q : \A j \in Q : j <= i].successor

\* id lies on the arc from a to b walking clockwise, both ends included (the
\* whole ring when a = b).
ClosedArc(id, a, b) ==
    a = b \/ (id - a + RING_SIZE) % RING_SIZE <= (b - a + RING_SIZE) % RING_SIZE

\* Node.join(existing_node_address) between its RPC and its finger table:
\* the response is stored in self.successor and checked (an absent NodeInfo
\* makes join raise and return False); the finger table is not yet written.
JoinAssign(n) ==
    /\ phase[n] = "JOINING"
    /\ join_resp[n].pending
    /\ LET s == proto_to_node_info(join_resp[n].proto) IN
       /\ successor' = [successor EXCEPT ![n] = s]
       /\ IF s = None
          THEN /\ phase' = [phase EXCEPT ![n] = "STARTED"]
               /\ join_resp' = [join_resp EXCEPT ![n] = NoCall]
               /\ last' = [Op("join", n) EXCEPT !.ok = FALSE,
                                                 !.peer = join_resp[n].peer,
                                                 !.resp = join_resp[n].proto]
          ELSE /\ join_resp' = [join_resp EXCEPT ![n].pending = FALSE]
               /\ last' = NoOp
               /\ UNCHANGED phase
    /\ UNCHANGED <<serving, stab_running, pc, predecessor, finger_table, next_finger,
                   bootstrap, crashes, fix_lookup, stab_call>>

\* The rest of join: predecessor cleared, _init_finger_table, join returns
\* True.
JoinInit(n) ==
    /\ phase[n] = "JOINING"
    /\ ~join_resp[n].pending /\ join_resp[n].peer # ""
    /\ predecessor' = [predecessor EXCEPT ![n] = None]
    /\ finger_table' = init_finger_table(successor, finger_table, n, 0)
    /\ phase' = [phase EXCEPT ![n] = "LIVE"]
    /\ bootstrap' = [bootstrap EXCEPT ![n] = join_resp[n].peer]
    /\ last' = [Op("join", n) EXCEPT !.ok = TRUE, !.ret = successor[n],
                                      !.peer = join_resp[n].peer,
                                      !.resp = join_resp[n].proto]
    /\ join_resp' = [join_resp EXCEPT ![n] = NoCall]
    /\ UNCHANGED <<serving, stab_running, pc, successor, next_finger, crashes,
                   fix_lookup, stab_call>>

\* Node.FindSuccessor served by node n for identifier k (a peer's lookup, a
\* peer's join, or the node's own threads through find_successor).
FindSuccessorServe(n, k) ==
    /\ serving[n]
    /\ LET r == find_successor(n, StrToInt(IntToStr(k))) IN
       last' = [Op("find_successor", n) EXCEPT !.arg = k, !.ok = ~r.raised,
                                              !.ret = r.node, !.rpcs = r.rpcs,
                                              !.args = r.path]
    /\ UNCHANGED <<serving, stab_running, pc, routing, join_resp, phase,
                   bootstrap, crashes, fix_lookup, stab_call>>

\* A call self.closest_preceding_finger(id) on node n.
ClosestPrecedingFingerCall(n, id) ==
    /\ last' = [Op("closest_preceding_finger", n) EXCEPT
                   !.arg = id, !.ret = closest_preceding_finger(finger_table, n, id)]
    /\ UNCHANGED <<serving, stab_running, pc, routing, join_resp, phase,
                   bootstrap, crashes, fix_lookup, stab_call>>

\* Lookups and finger scans in every routing state of interest: the converged rings of two to
\* seven nodes, and the two nodes a:1 and b:2 from their construction through
\* their joins (b:2 through a:1, or through the endpoint that answers an
\* absent NodeInfo), a join taken in its steps.  One call at a time.
InitRoute == InitRings \/ Created(JoinNodes)

NextRoute ==
    \/ \E n \in Addresses : StartServer(n) /\ UNCHANGED ticks
    \/ \E n \in Addresses : n = NodeA /\ JoinNil(n) /\ UNCHANGED ticks
    \/ \E n \in Addresses : \E b \in {NodeA, ForeignAddr} :
          /\ n = NodeB /\ (IF b \in Addresses THEN phase[b] = "LIVE" ELSE b = ForeignAddr)
          /\ JoinCall(n, b) /\ UNCHANGED ticks
    \/ \E n \in Addresses : JoinAssign(n) /\ UNCHANGED ticks
    \/ \E n \in Addresses : JoinInit(n) /\ UNCHANGED ticks
    \/ /\ last.op \notin {"find_successor", "closest_preceding_finger"}
       /\ \E n \in Addresses : \E k \in Identifiers :
             FindSuccessorServe(n, k) /\ UNCHANGED ticks
    \/ /\ last.op \notin {"find_successor", "closest_preceding_finger"}
       /\ \E n \in Addresses : \E k \in Identifiers :
             ClosestPrecedingFingerCall(n, k) /\ UNCHANGED ticks

SpecRoute == InitRoute /\ [][NextRoute]_vars

\* C28: local short-circuit in find_successor.  The call returns the local
\* successor with no outbound RPC when id lies in the closed arc [self.id,
\* successor.id] and when closest_preceding_finger(id) is the node itself;
\* it issues an outbound FindSuccessor(id) only when neither holds, and then
\* to exactly the closest preceding finger.
C28_LocalShortCircuit ==
    (last.op = "find_successor" /\ last.ok /\ successor[last.node] # None) =>
        LET n == last.node
            c == HighestFingerBefore(n, last.arg)
        IN IF ClosedArc(last.arg, NodeId(n), successor[n].id) \/ c = Self(n)
           THEN last.rpcs = 0 /\ last.args = <<>> /\ last.ret = successor[n]
           ELSE last.rpcs >= 1 /\ last.args[1] = c.address

\* In the ring 10, 80, 150, 220 the lookup of 200 at node 10 was forwarded to
\* node 150, the closest preceding finger, which is not node 10's successor.
C28_Witness ==
    /\ last.op = "find_successor" /\ last.ok
    /\ Addresses = RingNodes
    /\ NodeId(last.node) = 10
    /\ last.arg = 200
    /\ last.rpcs >= 1
    /\ hash_key(last.args[1]) = 150

\* A lookup answered locally although id is beyond the successor: b:2, in
\* its join through a:1, holds its successor and no finger yet.
C28_WitnessFallback ==
    /\ last.op = "find_successor" /\ last.ok
    /\ successor[last.node] # None
    /\ ~ClosedArc(last.arg, NodeId(last.node), successor[last.node].id)
    /\ last.rpcs = 0
    /\ last.ret = successor[last.node]

\* C29: closest_preceding_finger(id) returns the owner of the highest-indexed
\* populated finger whose owner id lies in the open arc (self.id, id), and
\* self when no finger qualifies (unpopulated table and id = self.id
\* included); its result is always self or a node strictly inside
\* (self.id, id).
C29_ClosestPrecedingFinger ==
    last.op = "closest_preceding_finger" =>
        /\ last.ret = HighestFingerBefore(last.node, last.arg)
        /\ \/ last.ret = Self(last.node)
           \/ OpenArc(last.ret.id, NodeId(last.node), last.arg)
        /\ last.arg = NodeId(last.node) => last.ret = Self(last.node)
        /\ (\A i \in FingerIdx : finger_table[last.node][i] = NoEntry) =>
              last.ret = Self(last.node)

\* In the ring 10, 80, 150, 220 the scan at node 10 for id 200 returned node
\* 150, the owner of finger 7, and not node 80, the owner of the lower
\* fingers.
C29_Witness ==
    /\ last.op = "closest_preceding_finger"
    /\ Addresses = RingNodes
    /\ NodeId(last.node) = 10
    /\ last.arg = 200
    /\ last.ret.id = 150
    /\ finger_table[last.node][7].successor = last.ret
    /\ finger_table[last.node][6].successor.id = 80

\* The scan of an unpopulated table, and the scan of a populated table for
\* the node's own id, returned the node itself.
C29_WitnessSelf ==
    \/ /\ last.op = "closest_preceding_finger"
       /\ \A i \in FingerIdx : finger_table[last.node][i] = NoEntry
       /\ last.ret = Self(last.node)
    \/ /\ last.op = "closest_preceding_finger"
       /\ last.arg = NodeId(last.node)
       /\ finger_table[last.node][0] # NoEntry
       /\ last.ret = Self(last.node)

\* ------------------------------------------------------ tick structure
\* One step of node n's stabilization thread in the order of the loop body:
\* stabilize (GetPredecessor and adoption, then Notify), fix_fingers (lookup,
\* then write), check_predecessor, and back to the top.  A procedure is left
\* early only by its own failure, and then the next one runs.
LoopOrder(n) ==
    /\ pc[n] = "stabilize" =>
          \/ pc'[n] = "notify"
          \/ pc'[n] = "fix_fingers" /\ last'.op = "stabilize" /\ ~last'.ok
          \/ pc'[n] = "stopped" /\ ~stab_running[n]
    /\ pc[n] = "notify" => pc'[n] = "fix_fingers"
    /\ pc[n] = "fix_fingers" =>
          \/ pc'[n] = "fix_fingers_write"
          \/ pc'[n] = "check_predecessor" /\ last'.op = "fix_fingers" /\ ~last'.ok
    /\ pc[n] = "fix_fingers_write" => pc'[n] = "check_predecessor"
    /\ pc[n] = "check_predecessor" =>
          pc'[n] = "stabilize" /\ last'.op = "check_predecessor"
    /\ pc[n] = "stopped" => FALSE

\* C30: tick structure and failure isolation.  Every iteration of the
\* stabilization loop runs stabilize, then fix_fingers, then
\* check_predecessor, each once and in that order; a failure inside one of
\* them does not skip the later ones of the tick (the tick in progress always
\* comes back to the top of the loop) and the loop ends only on a node that
\* has been stopped.
C30_TickStructure ==
    /\ [][\A n \in Addresses : pc'[n] # pc[n] /\ pc[n] # "idle" => LoopOrder(n)]_vars
    /\ [](\A n \in Addresses : pc[n] = "stopped" => StopCalled(n))
    /\ \A n \in JoinNodes :
          (pc[n] \in {"notify", "fix_fingers", "fix_fingers_write", "check_predecessor"})
             ~> (pc[n] = "stabilize")

\* The second tick of a node that has not been stopped, completed although
\* its Ping failed: its predecessor has stopped and closed its server,
\* check_predecessor cleared the predecessor, and the loop is back at its top.
C30_Witness ==
    /\ last.op = "check_predecessor"
    /\ last.old_predecessor # None
    /\ ~Reachable(last.old_predecessor)
    /\ predecessor[last.node] = None
    /\ ~StopCalled(last.node)
    /\ stab_running[last.node]
    /\ ticks[last.node] = 2
    /\ pc[last.node] = "stabilize"

\* stabilize failed on an RPC to a closed successor and the loop went on to
\* fix_fingers.
C30_WitnessStabilize ==
    /\ last.op = "stabilize" /\ ~last.ok
    /\ successor[last.node] # None
    /\ ~Reachable(successor[last.node])
    /\ ~StopCalled(last.node)
    /\ pc[last.node] = "fix_fingers"

\* ------------------------------------------- stabilize, successor down
\* Node n is at the top of a tick, its loop not stopped, and holds a successor
\* that does not answer.
SuccessorDown(n) ==
    /\ pc[n] = "stabilize"
    /\ stab_running[n]
    /\ successor[n] # None
    /\ ~Reachable(successor[n])

\* C31: stabilize on an unreachable successor.  When GetPredecessor to the
\* current successor fails, stabilize changes neither successor nor any finger
\* entry, sends no Notify in that call (no predecessor anywhere changes, the
\* Notify step is skipped), raises nothing to the loop (the tick goes on with
\* fix_fingers), and every later tick that finds the successor still
\* unreachable makes the same attempt with the same outcome.
C31_StabilizeUnreachable ==
    [][\A n \in Addresses :
          (SuccessorDown(n) /\ pc'[n] \notin {"stabilize", "dead"}) =>
              /\ successor'[n] = successor[n]
              /\ finger_table'[n] = finger_table[n]
              /\ next_finger'[n] = next_finger[n]
              /\ predecessor' = predecessor
              /\ pc'[n] = "fix_fingers"
              /\ last'.op = "stabilize" /\ last'.node = n /\ ~last'.ok]_vars

\* The second tick of a node whose successor has crashed: stabilize failed
\* again, the successor is kept, and the tick is at fix_fingers.
C31_Witness ==
    /\ last.op = "stabilize" /\ ~last.ok
    /\ ticks[last.node] = 2
    /\ successor[last.node] # None
    /\ successor[last.node].address \in Addresses
    /\ phase[successor[last.node].address] = "CRASHED"
    /\ successor[last.node] = last.old_successor
    /\ finger_table[last.node] = last.old_fingers
    /\ pc[last.node] = "fix_fingers"

\* --------------------------------------------------- stale finger tables
\* Routing state in which every node holds the successor, predecessor and
\* finger table of the ring as it once saw it: V[n] is the membership node n's
\* state was built for (its own view, whatever the others hold), and V[n] = {}
\* is a node whose join through a bootstrap failed (join stored the absent
\* response in self.successor and returned False).  The nodes of D have
\* crashed.
StaleRing(V, D) ==
    /\ serving = [n \in ThreeNodes |-> n \notin D]
    /\ stab_running = [n \in ThreeNodes |-> TRUE]
    /\ pc = [n \in ThreeNodes |-> IF n \in D THEN "dead" ELSE "stabilize"]
    /\ successor = [n \in ThreeNodes |->
            IF V[n] = {} THEN None
            ELSE NodeInfo(hash_key(RingNext(n, V[n])), RingNext(n, V[n]))]
    /\ predecessor = [n \in ThreeNodes |->
            IF V[n] = {} THEN None
            ELSE NodeInfo(hash_key(RingPrev(n, V[n])), RingPrev(n, V[n]))]
    /\ finger_table = [n \in ThreeNodes |->
            IF V[n] = {} THEN FingerTableInit
            ELSE [i \in FingerIdx |->
                    LET start == FingerStart(hash_key(n), i)
                        owner == find_successor_node(start, V[n])
                    IN FingerEntry(start, NodeInfo(hash_key(owner), owner))]]
    /\ next_finger = [n \in ThreeNodes |-> 0]
    /\ join_resp = [n \in ThreeNodes |-> NoCall]
    /\ stab_call = [n \in ThreeNodes |-> NoRpc]
    /\ fix_lookup = [n \in ThreeNodes |-> NoLookup]
    /\ phase = [n \in ThreeNodes |->
            IF n \in D THEN "CRASHED" ELSE IF V[n] = {} THEN "STARTED" ELSE "LIVE"]
    /\ bootstrap = [n \in ThreeNodes |-> IF V[n] = {} THEN ForeignAddr ELSE "ring"]
    /\ ticks = [n \in ThreeNodes |-> 0]
    /\ crashes = Cardinality(D)
    /\ last = NoOp

InitStale ==
    \E V \in [ThreeNodes -> SUBSET ThreeNodes] : \E D \in {{}, {NodeC}} :
        /\ \A n \in ThreeNodes : V[n] = {} \/ n \in V[n]
        /\ StaleRing(V, D)

\* Every identifier is looked up at every serving node, one lookup per
\* behaviour.
NextStale ==
    /\ last.op # "find_successor"
    /\ \E n \in Addresses : \E k \in Identifiers :
          FindSuccessorServe(n, k) /\ UNCHANGED ticks

SpecStale == InitStale /\ [][NextStale]_vars

\* The chain of a lookup of id that began at node n and called the addresses
\* of path in order makes progress: every callee lies strictly between its
\* caller and id, and no node occurs twice.
ChainProgress(n, id, path) ==
    /\ \A i \in 1 .. Len(path) :
          LET caller == IF i = 1 THEN n ELSE path[i - 1] IN
          OpenArc(NodeId(path[i]), NodeId(caller), id)
    /\ \A i \in 1 .. Len(path) : path[i] # n
    /\ \A i, j \in 1 .. Len(path) : i # j => path[i] # path[j]

\* C32: lookup forwarding always makes progress.  Every FindSuccessor(id) RPC
\* that a node forwards goes to a node whose id lies strictly inside
\* (n.id, id), so no node is visited twice, and every find_successor call
\* terminates with an answer, whatever the finger tables hold.
C32_ForwardingProgress ==
    last.op = "find_successor" =>
        /\ ChainProgress(last.node, last.arg, last.args)
        /\ last.ok
        /\ last.ret # None

\* The same for the calls made on a node that holds a successor.
C32_ProgressWithSuccessor ==
    (last.op = "find_successor" /\ successor[last.node] # None) =>
        /\ ChainProgress(last.node, last.arg, last.args)
        /\ last.ok
        /\ last.ret # None

\* A chain of two forwarded calls over tables that disagree.
C32_WitnessChain ==
    /\ last.op = "find_successor" /\ last.ok
    /\ Len(last.args) >= 2

\* A forwarded call that reached a node whose own successor is absent.
C32_WitnessCalleeFails ==
    /\ last.op = "find_successor" /\ last.ok
    /\ Len(last.args) >= 1
    /\ successor[last.args[Len(last.args)]] = None
    /\ serving[last.args[Len(last.args)]]

\* ------------------------------------------------- the own predecessor
\* Node n holds itself as predecessor.
OwnPredecessor(n) == predecessor[n] # None /\ predecessor[n].id = NodeId(n)

\* C33 as stated: a node never becomes its own predecessor; predecessor is
\* absent or a NodeRef whose id differs from the node's own id, also while a
\* solo node ticks and while ticks run between start_server and join.
C33_NeverOwnPredecessor == \A n \in Addresses : ~OwnPredecessor(n)

\* C33, amended: a node becomes its own predecessor only by its own Notify to
\* itself.  predecessor changes to the node itself only in the Notify step of
\* a stabilize of that node whose successor is the node itself (a solo node,
\* or a tick between start_server and join), and that step does make the
\* node its own predecessor whenever it finds predecessor absent.
C33_OwnPredecessorBySelfNotify ==
    [][\A n \in Addresses :
          /\ (OwnPredecessor(n)' /\ ~OwnPredecessor(n)) =>
                /\ pc[n] = "notify" /\ pc'[n] = "fix_fingers"
                /\ successor[n] = Self(n)
                /\ predecessor[n] = None
          /\ (/\ pc[n] = "notify" /\ pc'[n] = "fix_fingers"
              /\ successor[n] = Self(n)
              /\ predecessor[n] = None) => predecessor'[n] = Self(n)]_vars

\* A solo node (join(None) done, successor itself) that has made itself its
\* own predecessor in the Notify of its stabilize.
C33_Witness ==
    \E n \in Addresses :
        /\ phase[n] = "LIVE" /\ bootstrap[n] = "nil"
        /\ successor[n] = Self(n)
        /\ predecessor[n] = Self(n)
        /\ pc[n] = "fix_fingers"
        /\ ticks[n] = 1

\* The same on a node that was started and has not yet joined.
C33_WitnessBeforeJoin ==
    \E n \in Addresses :
        /\ phase[n] = "STARTED" /\ bootstrap[n] = ""
        /\ predecessor[n] = Self(n)
        /\ pc[n] = "fix_fingers"

\* ------------------------------------------------- three nodes, a crash
\* The three-node behaviours in which nodes may also crash.
NextChurn3 ==
    \/ Next3
    \/ \E n \in ThreeNodes : Crash(n) /\ CountTicks(FALSE, MaxTicks3)

SpecChurn3 == Created(ThreeNodes) /\ [][NextChurn3]_vars

\* C34: stabilize never adopts a failed node.  Whenever stabilize replaces
\* successor by x, x is alive at that moment; a node whose live successor
\* still reports a crashed predecessor x keeps the live successor.
C34_NeverAdoptFailed ==
    [][\A n \in Addresses :
          (pc[n] = "stabilize" /\ pc'[n] = "notify" /\ successor'[n] # successor[n]) =>
              Reachable(successor'[n])]_vars

\* C34, amended: stabilize adopts x on the word of its successor, without
\* probing x.  Whenever stabilize replaces successor by x, the successor it
\* had answered GetPredecessor at that moment and x is the predecessor it
\* reported; x itself may have crashed, and a crashed x that lies strictly
\* between the node and its successor is adopted like a live one.
C34_AdoptsReported ==
    [][\A n \in Addresses :
          (pc[n] = "stabilize" /\ pc'[n] = "notify") =>
              LET s == successor[n]
                  x == predecessor[s.address]
              IN /\ Reachable(s)
                 /\ successor'[n] # s => successor'[n] = x
                 /\ (x # None /\ ~Reachable(x) /\ OpenArc(x.id, NodeId(n), s.id)) =>
                        successor'[n] = x]_vars

\* A node holds, as the successor it has just adopted in stabilize from its
\* live bootstrap node, a node that had crashed before.
C34_AdoptedCrashed ==
    \E n \in Addresses :
        /\ pc[n] = "notify"
        /\ successor[n] # None
        /\ successor[n] = stab_call[n].stood
        /\ successor[n].address \in Addresses
        /\ phase[successor[n].address] = "CRASHED"
        /\ bootstrap[n] \in Addresses
        /\ bootstrap[n] # successor[n].address
        /\ serving[bootstrap[n]]

\* ------------------------------------------------ writes of successor
\* A step of node n's join (join(None), the bootstrap call, its completion).
JoinStep(n) == phase'[n] # phase[n] \/ join_resp'[n] # join_resp[n]

CheckPredecessorCall(n) ==
    /\ pc[n] = "check_predecessor"
    /\ IF predecessor[n] = None
       THEN /\ pc' = [pc EXCEPT ![n] = "stabilize"]
            /\ last' = Op("check_predecessor", n)
            /\ UNCHANGED stab_call
       ELSE /\ pc' = [pc EXCEPT ![n] = "await_ping"]
            /\ stab_call' = [stab_call EXCEPT ![n] =
                   [NoRpc EXCEPT !.pending = TRUE, !.method = "Ping",
                                 !.to = predecessor[n].address,
                                 !.served = Reachable(predecessor[n])]]
            /\ last' = NoOp
    /\ UNCHANGED <<serving, stab_running, routing, join_resp, phase, bootstrap,
                   crashes, fix_lookup>>

\* The rest of Node.check_predecessor: Ping returned, or it raised and the
\* except sets self.predecessor = None, whatever self.predecessor holds by
\* then.  The loop sleeps and returns to its top.
CheckPredecessorReturn(n) ==
    /\ pc[n] = "await_ping"
    /\ stab_call[n].pending /\ stab_call[n].method = "Ping"
    /\ IF ~stab_call[n].served
       THEN predecessor' = [predecessor EXCEPT ![n] = None]
       ELSE UNCHANGED predecessor
    /\ pc' = [pc EXCEPT ![n] = "stabilize"]
    /\ stab_call' = [stab_call EXCEPT ![n] = NoRpc]
    /\ last' = [Op("check_predecessor", n) EXCEPT !.ok = stab_call[n].served,
                                                  !.peer = stab_call[n].to]
    /\ UNCHANGED <<serving, stab_running, successor, finger_table, next_finger,
                   join_resp, phase, bootstrap, crashes, fix_lookup>>

\* The three-node behaviours with a crash, check_predecessor taken in its two
\* steps.
NextPing3 ==
    \/ \E n \in ThreeNodes : StartServer(n) /\ CountTicks(FALSE, MaxTicks3)
    \/ JoinNil(NodeA) /\ CountTicks(FALSE, MaxTicks3)
    \/ phase[NodeA] = "LIVE" /\ JoinCall(NodeB, NodeA) /\ CountTicks(FALSE, MaxTicks3)
    \/ \E b \in {NodeA, NodeB} :
          phase[b] = "LIVE" /\ JoinCall(NodeC, b) /\ CountTicks(FALSE, MaxTicks3)
    \/ \E n \in ThreeNodes : JoinFinish(n) /\ CountTicks(FALSE, MaxTicks3)
    \/ \E n \in ThreeNodes :
          ticks[n] < MaxTicks3 /\ Stabilize(n) /\ CountTicks(FALSE, MaxTicks3)
    \/ \E n \in ThreeNodes : StabilizeNotify(n) /\ CountTicks(FALSE, MaxTicks3)
    \/ \E n \in ThreeNodes : FixFingers(n) /\ CountTicks(FALSE, MaxTicks3)
    \/ \E n \in ThreeNodes : FixFingersWrite(n) /\ CountTicks(FALSE, MaxTicks3)
    \/ \E n \in ThreeNodes : CheckPredecessorCall(n) /\ CountTicks(FALSE, MaxTicks3)
    \/ \E n \in ThreeNodes : CheckPredecessorReturn(n) /\ CountTicks(FALSE, MaxTicks3)
    \/ \E n \in ThreeNodes : Crash(n) /\ CountTicks(FALSE, MaxTicks3)

SpecPing3 == Created(ThreeNodes) /\ [][NextPing3]_vars

\* C36: check_predecessor never discards a live predecessor.  With inbound
\* Notify handlers running while the Ping is out, predecessor is set to absent
\* only if the node stored as predecessor at the moment of clearing is the one
\* whose Ping failed; a live predecessor installed by a Notify that arrived in
\* between is not erased.
C36_ClearsOnlyPinged ==
    [][\A n \in Addresses :
          (pc[n] = "await_ping" /\ pc'[n] = "stabilize"
             /\ predecessor[n] # None /\ predecessor'[n] = None) =>
                /\ predecessor[n].address = stab_call[n].to
                /\ ~Reachable(predecessor[n])]_vars

\* The state the claim excludes is reached through this one: the Ping of a
\* crashed predecessor is out and a Notify has installed a live node.
C36_LivePredecessorWhilePingOut ==
    \E n \in Addresses :
        /\ pc[n] = "await_ping"
        /\ ~stab_call[n].served
        /\ predecessor[n] # None
        /\ predecessor[n].address # stab_call[n].to
        /\ Reachable(predecessor[n])

\* -------------------------------------------- Notify handlers in parallel
\* The test of Node.notify at node b for candidate `node`.
notify_test(b, node) ==
    \/ predecessor[b] = None
    \/ in_range(node.id, predecessor[b].id, NodeId(b), FALSE, FALSE)

\* Node.Notify at node b, on a worker thread of b's server, serves the call
\* of node n: the request is decoded and notify evaluates its test on
\* b.predecessor as it stands.
ServeNotifyTest(b, n) ==
    /\ stab_call[n].pending /\ ~stab_call[n].served /\ ~stab_call[n].checked
    /\ stab_call[n].method = "Notify" /\ stab_call[n].to = b
    /\ serving[b]
    /\ LET node == proto_to_node_info(node_info_to_proto(Self(n))) IN
       stab_call' = [stab_call EXCEPT ![n].checked = TRUE,
                                      ![n].adopt = node # None /\ notify_test(b, node)]
    /\ last' = NoOp
    /\ UNCHANGED <<serving, stab_running, pc, routing, join_resp, phase, bootstrap,
                   crashes, fix_lookup>>

\* The handler after its test: self.predecessor = node when the test
\* held, whatever other handlers have written since; then the response.
ServeNotifyAssign(b, n) ==
    /\ stab_call[n].pending /\ ~stab_call[n].served /\ stab_call[n].checked
    /\ stab_call[n].method = "Notify" /\ stab_call[n].to = b
    /\ serving[b]
    /\ predecessor' = IF stab_call[n].adopt
                      THEN [predecessor EXCEPT ![b] = Self(n)]
                      ELSE predecessor
    /\ stab_call' = [stab_call EXCEPT ![n].served = TRUE]
    /\ last' = [Op("Notify", b) EXCEPT !.peer = n]
    /\ UNCHANGED <<serving, stab_running, pc, successor, finger_table, next_finger,
                   join_resp, phase, bootstrap, crashes, fix_lookup>>

\* The tick counter for stabilize taken RPC by RPC.
CountRpcTicks(cap) ==
    ticks' = [n \in Addresses |->
                IF pc[n] = "stabilize" /\ pc'[n] \in {"await_get_predecessor", "fix_fingers"}
                THEN Bump(ticks[n], cap)
                ELSE ticks[n]]

\* Three nodes: A creates the ring, B and C join through it, and every
\* stabilization thread runs for MaxTicks3 ticks, its RPCs served by worker
\* threads of the callee in any interleaving.
NextWorkers ==
    \/ \E n \in ThreeNodes : StartServer(n) /\ CountRpcTicks(MaxTicks3)
    \/ JoinNil(NodeA) /\ CountRpcTicks(MaxTicks3)
    \/ \E n \in {NodeB, NodeC} :
          phase[NodeA] = "LIVE" /\ JoinCall(n, NodeA) /\ CountRpcTicks(MaxTicks3)
    \/ \E n \in ThreeNodes : JoinFinish(n) /\ CountRpcTicks(MaxTicks3)
    \/ \E n \in ThreeNodes :
          ticks[n] < MaxTicks3 /\ StabilizeCall(n) /\ CountRpcTicks(MaxTicks3)
    \/ \E n, b \in ThreeNodes : ServeGetPredecessor(b, n) /\ CountRpcTicks(MaxTicks3)
    \/ \E n \in ThreeNodes : StabilizeAdopt(n) /\ CountRpcTicks(MaxTicks3)
    \/ \E n, b \in ThreeNodes : ServeNotifyTest(b, n) /\ CountRpcTicks(MaxTicks3)
    \/ \E n, b \in ThreeNodes : ServeNotifyAssign(b, n) /\ CountRpcTicks(MaxTicks3)
    \/ \E n \in ThreeNodes : StabilizeReturn(n) /\ CountRpcTicks(MaxTicks3)
    \/ \E n \in ThreeNodes : FixFingers(n) /\ CountRpcTicks(MaxTicks3)
    \/ \E n \in ThreeNodes : FixFingersWrite(n) /\ CountRpcTicks(MaxTicks3)
    \/ \E n \in ThreeNodes : CheckPredecessor(n) /\ CountRpcTicks(MaxTicks3)

SpecWorkers == Created(ThreeNodes) /\ [][NextWorkers]_vars

\* C37: predecessor only moves closer under concurrent Notify.  With any
\* interleaving of the Notify handlers running in parallel on a node, each
\* change of a present predecessor q to p has p.id in the open arc
\* (q.id, self.id): a Notify from a farther node never overwrites a closer
\* predecessor that another handler has already installed.
C37_PredecessorMovesCloser ==
    [][\A b \in Addresses :
          (/\ predecessor[b] # None
           /\ predecessor'[b] # None
           /\ predecessor'[b] # predecessor[b]) =>
              OpenArc(predecessor'[b].id, predecessor[b].id, NodeId(b))]_vars

\* Two Notify handlers on the same node have both evaluated their test and
\* both are about to assign.
C37_TwoHandlersAssigning ==
    \E b \in Addresses : \E n, o \in Addresses :
        /\ n # o
        /\ stab_call[n].method = "Notify" /\ stab_call[n].to = b
        /\ stab_call[o].method = "Notify" /\ stab_call[o].to = b
        /\ stab_call[n].checked /\ stab_call[n].adopt /\ ~stab_call[n].served
        /\ stab_call[o].checked /\ stab_call[o].adopt /\ ~stab_call[o].served

\* ------------------------------------------------------------ write sets
\* Identifiers looked up in the behaviours below.
ProbeIds == {0, 100}

\* The three-node behaviours, with find_successor and
\* closest_preceding_finger also called from outside the loop (a served
\* FindSuccessor, a foreground lookup) at any serving node, one such call
\* at a time.
NextOps ==
    \/ Next3
    \/ /\ last.op \notin {"find_successor", "closest_preceding_finger"}
       /\ \E n \in ThreeNodes : \E k \in ProbeIds :
             FindSuccessorServe(n, k) /\ UNCHANGED ticks
    \/ /\ last.op \notin {"find_successor", "closest_preceding_finger"}
       /\ \E n \in ThreeNodes : \E k \in ProbeIds :
             ClosestPrecedingFingerCall(n, k) /\ UNCHANGED ticks

SpecOps == Created(ThreeNodes) /\ [][NextOps]_vars

\* Nothing of the routing state changes but, at most, what W allows at node n:
\* W.successor, W.predecessor, W.next_finger are flags, W.fingers the set of
\* finger indices that may change.
OnlyWrites(n, W) ==
    /\ \A o \in Addresses \ {n} :
          /\ successor'[o] = successor[o]
          /\ predecessor'[o] = predecessor[o]
          /\ finger_table'[o] = finger_table[o]
          /\ next_finger'[o] = next_finger[o]
    /\ W.successor \/ successor'[n] = successor[n]
    /\ W.predecessor \/ predecessor'[n] = predecessor[n]
    /\ W.next_finger \/ next_finger'[n] = next_finger[n]
    /\ \A i \in FingerIdx \ W.fingers : finger_table'[n][i] = finger_table[n][i]

Nothing == [successor |-> FALSE, predecessor |-> FALSE, next_finger |-> FALSE,
            fingers |-> {}]

\* The write sets of the steps that are the same in the claim as stated and
\* as amended: the calls find_successor and closest_preceding_finger (from
\* outside, and inside fix_fingers), GetPredecessor with stabilize's adoption,
\* fix_fingers' write, and check_predecessor with its Ping.
WriteSetsBut(n) ==
    /\ (last'.op \in {"find_successor", "closest_preceding_finger"} /\ last' # last) =>
          routing' = routing
    /\ (pc[n] = "stabilize" /\ pc'[n] \in {"notify", "fix_fingers", "stopped"}) =>
          OnlyWrites(n, [Nothing EXCEPT !.successor = TRUE, !.fingers = {0}])
    /\ (pc[n] = "fix_fingers" /\ pc'[n] \in {"fix_fingers_write", "check_predecessor"}) =>
          routing' = routing
    /\ (pc[n] = "fix_fingers_write" /\ pc'[n] = "check_predecessor") =>
          OnlyWrites(n, [Nothing EXCEPT !.next_finger = TRUE,
                                        !.fingers = {next_finger[n]}])
    /\ (pc[n] = "check_predecessor" /\ pc'[n] = "stabilize") =>
          OnlyWrites(n, [Nothing EXCEPT !.predecessor = TRUE])

\* C38 as stated: write sets of the operations.  find_successor,
\* closest_preceding_finger, GetPredecessor and Ping change no routing state;
\* notify and check_predecessor change only predecessor; fix_fingers changes
\* only finger_table[next_finger] and next_finger; stabilize changes only
\* successor and finger_table[0] on the local node: its Notify changes the
\* predecessor of the notified node and nothing on the node that stabilizes.
C38_WriteSets ==
    [][\A n \in Addresses :
          /\ WriteSetsBut(n)
          /\ (pc[n] = "notify" /\ pc'[n] = "fix_fingers") =>
                /\ successor' = successor
                /\ finger_table' = finger_table
                /\ next_finger' = next_finger
                /\ predecessor'[n] = predecessor[n]
                /\ \A o \in Addresses :
                      predecessor'[o] # predecessor[o] => o = successor[n].address]_vars

\* C38, amended: the same write sets, but stabilize changes on the local node
\* successor and finger_table[0] by its own assignments and, when its
\* successor is the node itself, its own predecessor through its Notify: the
\* Notify of stabilize changes the predecessor of the node it is sent to, and
\* nothing else.
C38_WriteSetsWithSelfNotify ==
    [][\A n \in Addresses :
          /\ WriteSetsBut(n)
          /\ (pc[n] = "notify" /\ pc'[n] = "fix_fingers") =>
                /\ successor' = successor
                /\ finger_table' = finger_table
                /\ next_finger' = next_finger
                /\ \A o \in Addresses :
                      predecessor'[o] # predecessor[o] =>
                          /\ o = successor[n].address
                          /\ predecessor'[o] = Self(n)]_vars

\* A whole tick of a node alone in its ring: stabilize has made it its own
\* predecessor through its Notify, fix_fingers has written finger 0 and
\* advanced next_finger, check_predecessor has pinged the node itself.
C38_Witness ==
    /\ last.op = "check_predecessor"
    /\ phase[last.node] = "LIVE"
    /\ successor[last.node] = Self(last.node)
    /\ predecessor[last.node] = Self(last.node)
    /\ last.old_predecessor = Self(last.node)
    /\ finger_table[last.node][0] # NoEntry
    /\ next_finger[last.node] = 1
    /\ ticks[last.node] = 1

\* The writes of a stabilize toward another node: C has adopted B as
\* successor (finger 0 rewritten) and has notified it (B's predecessor is C).
C38_WitnessAdoption ==
    /\ successor[NodeC] = Self(NodeB)
    /\ finger_table[NodeC][0].successor = Self(NodeB)
    /\ bootstrap[NodeC] = NodeA
    /\ predecessor[NodeB] = Self(NodeC)
    /\ pc[NodeC] = "fix_fingers"

====
